---- MODULE Spec2Model ----
(***************************************************************************)
(* Verification model of the lobstercage content-safety core:              *)
(*   - the detection engine        (src/src/scanner/engine.ts)             *)
(*   - the PII patterns and Luhn   (src/src/stats/rules-config.ts)         *)
(*   - the redaction engine        (src/src/forensic/redact.ts)            *)
(*   - the integrity subsystem     (src/unnamed/part_008)                  *)
(*   - the skill scan file listing (src/unnamed/part_007)                  *)
(*   - the quarantine subsystem    (src/src/security/quarantine.ts)        *)
(*                                                                         *)
(* Text is a sequence of one-character strings, so that the regular        *)
(* expressions, the keyword search and the masking are computed character  *)
(* by character.  Each subsystem has its own specification; the variables  *)
(* of the other subsystems stay at their idle values.                      *)
(***************************************************************************)
EXTENDS Integers, Sequences, FiniteSets, TLC

VARIABLES
    \* resolveAction
    rvList,        \* the violation list handed to resolveAction
    rvResult,      \* its result, "none" before the call
    \* scanContent
    content,       \* the text being scanned
    rules,         \* the rule list (ScanRule[])
    ruleIdx,       \* index of the next rule of the for loop in scanContent
    violations,    \* the violations accumulated so far
    \* integrity and skill-scan file listing
    fs,            \* the filesystem: path -> node
    baseline,      \* integrity-baseline.json, NoBaseline when the file is absent
    opResult,      \* what the last operation returned, NoResult after a change
    changes,       \* number of filesystem changes made so far
    dirty,         \* the tree changed since the baseline was written
    \* applyRedactions
    sfs,           \* the session directories: path -> text, Absent when no file
    now,           \* Date.now()
    rdPending,     \* entries of byFile the for loop has still to process
    rdPc,          \* position inside the loop body: copy, read, write
    rdLocal,       \* backupPath, newText and redactedCount of the iteration
    rdResults,     \* results
    rdBefore,      \* text of every session file when applyRedactions was called
    rdIo,          \* copies and writes applyRedactions made, in order
    rdCalls,       \* number of calls of applyRedactions so far
    rdDecisions,   \* the decisions the current call was given
    \* quarantine
    qfs,           \* extensions and quarantine directories: path -> tree
    ledger,        \* quarantine-records.json
    qIds,          \* number of identifiers randomUUID() has handed out
    qClock,        \* new Date()
    qRet,          \* what the last quarantine or restore call returned
    qTaken,        \* tree of each quarantined item at the time it was moved
    \* saveDb, saveIntegrityBaseline, saveLedger
    pfs,           \* the state directory: path -> text, NoFile when no file
    saver,         \* the process that saves: its position, path and data
    savePrev,      \* text at the final path when the save began
    saves,         \* number of saves begun so far
    \* runInstallSafe
    isPc,          \* position inside runInstallSafe
    options,       \* InstallSafeOptions of the current run
    preScan,       \* McpScanResult of the staged source
    postScan,      \* McpScanResult of the installed path
    marker,        \* .lobstercage-disabled of the install path
    enableCalled,  \* enableExtension was called by the current run
    approvals,     \* entries of approval-ledger.json
    installs,      \* number of runs begun so far
    \* runCatch
    catchPc,       \* position inside runCatch
    catchOptions,  \* CatchOptions of the run
    ran,           \* the phases the run has carried out, in order
    needsBaselineCreation,\* no integrity baseline was found by the run
    \* dashboard API: POST /api/rules/update
    dPc,           \* position of the request inside handleUpdateRule
    payload,       \* what the client sends: its kind, rule, update and length
    body,          \* length of the body parseBody has accumulated
    res,           \* the response sendJson wrote, NoResponse before
    ruleConfig,    \* enabled flag of each stored rule
    configBefore,  \* ruleConfig when the request arrived
    requests,      \* number of requests so far
    \* the while loops of scanContentRule and scanPiiRule
    lpContent,     \* content
    lpMatcher,     \* the keyword or the RegExp of the loop
    lpPos,         \* pos of the keyword loop, re.lastIndex of the pattern loop
    lpPushed,      \* number of violations pushed so far
    lpPc,          \* looping, or returned once the loop condition failed
    \* parseJsonl followed by serializeJsonl
    rtInput,       \* the text of the log file, line by line
    rtOutput,      \* the text serializeJsonl returned
    rtPc,          \* idle, returned or threw
    \* two quarantineSkill calls in flight at once
    raceFs,        \* extensions and quarantine directories: path -> tree
    raceLedger,    \* quarantine-records.json
    raceTemp,      \* quarantine-records.json.tmp, NoLedgerFile when absent
    procs,         \* each call: its position, skillPath, db and record
    raceClock,     \* new Date()
    overlapped,    \* a call began while the other was in flight
    \* the two masking functions applied to one raw match
    maskRaw,       \* the raw match
    maskPreview,   \* redact(raw), the detection preview
    maskRewritten, \* redactString(raw), the text written to the log
    maskPc,        \* idle, masked
    \* redaction of one entry whose content is a list of typed blocks
    blkContent,    \* message.content of the target entry
    blkBefore,     \* the content before the redaction
    blkRule,       \* the rule id of the violation
    blkCount,      \* redactedCount
    blkPc,         \* idle, done
    \* the interactive redaction flow of catch
    irViolations,  \* report.violations: the session file of each violation
    irPc,          \* position of handleInteractiveRedaction
    irDecisions,   \* the decisions map: an action for each violation, or none
    irBulk,        \* redactAll / skipAll and the place in the review where it was set
    irNext,        \* place in the review order of the violation looked at next
    irPrompted,    \* the violations select was asked for
    irAnswers,     \* the answers to the two confirm questions
    irTouched,     \* the session files applyRedactions backed up and rewrote
    \* POST /api/scan requests of the dashboard
    scanInProgress,\* the module variable of api.ts
    lastScanResult,\* null, or set by the scan that finished last
    scanCalls,     \* the handleScan call of each request
    scansStarted,  \* number of calls of forensicScan
    \* scanInstalledSkills over the extensions directory
    ssEntries,     \* the names readdir gives for the extensions directory
    ssOptions,     \* the options of the call
    ssPc,          \* idle, listing, looping, returned
    ssSkills,      \* the result of listSkillDirectories
    ssIdx,         \* index in ssSkills of the skill of the next iteration
    ssReport,      \* the report under construction
    ssListed,      \* the skills whose files were listed
    ssCalls,       \* the skills quarantineSkill was called for
    ssThrown,      \* number of scans and quarantines that threw
    \* detection and redaction of one text under one rule
    rwText,        \* the content of the message
    rwRule,        \* the PII rule
    rwFound,       \* the violations scanPiiRule reports
    rwOut,         \* the content after redactContent
    rwPc,          \* idle, scanned, done
    \* quarantine and restore step by step, with a stop of the process
    stFs,          \* the skill directories and the quarantine directory
    stLedger,      \* quarantine-records.json
    stTemp,        \* quarantine-records.json.tmp
    stCall,        \* the call in progress: its position and its locals
    stIds,         \* number of UUIDs handed out
    stClock        \* the clock; it counts the calls as well

resolveVars == <<rvList, rvResult>>
scanVars == <<content, rules, ruleIdx, violations>>
integrityVars == <<fs, baseline, opResult, changes, dirty>>
redactVars == <<sfs, now, rdPending, rdPc, rdLocal, rdResults, rdBefore, rdIo,
                rdCalls, rdDecisions>>
quarantineVars == <<qfs, ledger, qIds, qClock, qRet, qTaken>>
persistVars == <<pfs, saver, savePrev, saves>>
installVars == <<isPc, options, preScan, postScan, marker, enableCalled, approvals, installs>>
catchVars == <<catchPc, catchOptions, ran, needsBaselineCreation>>
dashboardVars == <<dPc, payload, body, res, ruleConfig, configBefore, requests>>
loopVars == <<lpContent, lpMatcher, lpPos, lpPushed, lpPc>>
roundTripVars == <<rtInput, rtOutput, rtPc>>
raceVars == <<raceFs, raceLedger, raceTemp, procs, raceClock, overlapped>>
maskVars == <<maskRaw, maskPreview, maskRewritten, maskPc>>
blocksVars == <<blkContent, blkBefore, blkRule, blkCount, blkPc>>
reviewVars == <<irViolations, irPc, irDecisions, irBulk, irNext, irPrompted, irAnswers, irTouched>>
dashScanVars == <<scanInProgress, lastScanResult, scanCalls, scansStarted>>
skillScanVars == <<ssEntries, ssOptions, ssPc, ssSkills, ssIdx, ssReport, ssListed, ssCalls, ssThrown>>
rewriteVars == <<rwText, rwRule, rwFound, rwOut, rwPc>>
stopVars == <<stFs, stLedger, stTemp, stCall, stIds, stClock>>
vars == <<resolveVars, scanVars, integrityVars, redactVars, quarantineVars,
    persistVars, installVars, catchVars, dashboardVars, loopVars,
    roundTripVars, raceVars, maskVars, blocksVars, reviewVars,
    dashScanVars, skillScanVars, rewriteVars, stopVars>>

\* what each specification leaves alone
otherThanResolve == <<scanVars, integrityVars, redactVars, quarantineVars,
    persistVars, installVars, catchVars, dashboardVars, loopVars,
    roundTripVars, raceVars, maskVars, blocksVars, reviewVars,
    dashScanVars, skillScanVars, rewriteVars, stopVars>>
otherThanScan == <<resolveVars, integrityVars, redactVars, quarantineVars,
    persistVars, installVars, catchVars, dashboardVars, loopVars,
    roundTripVars, raceVars, maskVars, blocksVars, reviewVars,
    dashScanVars, skillScanVars, rewriteVars, stopVars>>
otherThanIntegrity == <<resolveVars, scanVars, redactVars, quarantineVars,
    persistVars, installVars, catchVars, dashboardVars, loopVars,
    roundTripVars, raceVars, maskVars, blocksVars, reviewVars,
    dashScanVars, skillScanVars, rewriteVars, stopVars>>
otherThanRedact == <<resolveVars, scanVars, integrityVars, quarantineVars,
    persistVars, installVars, catchVars, dashboardVars, loopVars,
    roundTripVars, raceVars, maskVars, blocksVars, reviewVars,
    dashScanVars, skillScanVars, rewriteVars, stopVars>>
otherThanQuarantine == <<resolveVars, scanVars, integrityVars, redactVars,
    persistVars, installVars, catchVars, dashboardVars, loopVars,
    roundTripVars, raceVars, maskVars, blocksVars, reviewVars,
    dashScanVars, skillScanVars, rewriteVars, stopVars>>
otherThanPersist == <<resolveVars, scanVars, integrityVars, redactVars,
    quarantineVars, installVars, catchVars, dashboardVars, loopVars,
    roundTripVars, raceVars, maskVars, blocksVars, reviewVars,
    dashScanVars, skillScanVars, rewriteVars, stopVars>>
otherThanInstall == <<resolveVars, scanVars, integrityVars, redactVars,
    quarantineVars, persistVars, catchVars, dashboardVars, loopVars,
    roundTripVars, raceVars, maskVars, blocksVars, reviewVars,
    dashScanVars, skillScanVars, rewriteVars, stopVars>>
otherThanCatch == <<resolveVars, scanVars, integrityVars, redactVars,
    quarantineVars, persistVars, installVars, dashboardVars, loopVars,
    roundTripVars, raceVars, maskVars, blocksVars, reviewVars,
    dashScanVars, skillScanVars, rewriteVars, stopVars>>
otherThanDashboard == <<resolveVars, scanVars, integrityVars, redactVars,
    quarantineVars, persistVars, installVars, catchVars, loopVars,
    roundTripVars, raceVars, maskVars, blocksVars, reviewVars,
    dashScanVars, skillScanVars, rewriteVars, stopVars>>
otherThanLoop == <<resolveVars, scanVars, integrityVars, redactVars,
    quarantineVars, persistVars, installVars, catchVars, dashboardVars,
    roundTripVars, raceVars, maskVars, blocksVars, reviewVars,
    dashScanVars, skillScanVars, rewriteVars, stopVars>>
otherThanRoundTrip == <<resolveVars, scanVars, integrityVars, redactVars,
    quarantineVars, persistVars, installVars, catchVars, dashboardVars,
    loopVars, raceVars, maskVars, blocksVars, reviewVars, dashScanVars,
    skillScanVars, rewriteVars, stopVars>>
otherThanRace == <<resolveVars, scanVars, integrityVars, redactVars,
    quarantineVars, persistVars, installVars, catchVars, dashboardVars,
    loopVars, roundTripVars, maskVars, blocksVars, reviewVars,
    dashScanVars, skillScanVars, rewriteVars, stopVars>>
otherThanMask == <<resolveVars, scanVars, integrityVars, redactVars,
    quarantineVars, persistVars, installVars, catchVars, dashboardVars,
    loopVars, roundTripVars, raceVars, blocksVars, reviewVars,
    dashScanVars, skillScanVars, rewriteVars, stopVars>>
otherThanBlocks == <<resolveVars, scanVars, integrityVars, redactVars,
    quarantineVars, persistVars, installVars, catchVars, dashboardVars,
    loopVars, roundTripVars, raceVars, maskVars, reviewVars,
    dashScanVars, skillScanVars, rewriteVars, stopVars>>
otherThanReview == <<resolveVars, scanVars, integrityVars, redactVars,
    quarantineVars, persistVars, installVars, catchVars, dashboardVars,
    loopVars, roundTripVars, raceVars, maskVars, blocksVars,
    dashScanVars, skillScanVars, rewriteVars, stopVars>>
otherThanDashScan == <<resolveVars, scanVars, integrityVars, redactVars,
    quarantineVars, persistVars, installVars, catchVars, dashboardVars,
    loopVars, roundTripVars, raceVars, maskVars, blocksVars, reviewVars,
    skillScanVars, rewriteVars, stopVars>>
otherThanSkillScan == <<resolveVars, scanVars, integrityVars, redactVars,
    quarantineVars, persistVars, installVars, catchVars, dashboardVars,
    loopVars, roundTripVars, raceVars, maskVars, blocksVars, reviewVars,
    dashScanVars, rewriteVars, stopVars>>
otherThanRewrite == <<resolveVars, scanVars, integrityVars, redactVars,
    quarantineVars, persistVars, installVars, catchVars, dashboardVars,
    loopVars, roundTripVars, raceVars, maskVars, blocksVars, reviewVars,
    dashScanVars, skillScanVars, stopVars>>
otherThanStop == <<resolveVars, scanVars, integrityVars, redactVars,
    quarantineVars, persistVars, installVars, catchVars, dashboardVars,
    loopVars, roundTripVars, raceVars, maskVars, blocksVars, reviewVars,
    dashScanVars, skillScanVars, rewriteVars>>

----------------------------------------------------------------------------
(* Bounds *)

\* longest violation list handed to resolveAction
MaxViolations == 4
\* number of tokens a scanned text is made of
MaxTokens == 2
\* number of changes the environment makes to the extensions tree
MaxChanges == 2
\* number of calls of applyRedactions
MaxCalls == 2
\* number of quarantine, restore and install operations
MaxQuarantineOps == 4
\* number of saves of a persisted structure
MaxSaves == 3
\* number of runs of install-safe
MaxInstalls == 2
\* number of requests sent to the dashboard API
MaxRequests == 2
\* length of the texts the match loops run over
MaxLoopText == 3
\* violations counted exactly; a longer list is counted as this many
MaxPushed == 4
\* number of lines of a log file before its final newline
MaxLines == 2
\* length of the raw matches handed to the masking functions
MaxMatchLen == 7
\* number of blocks of a content list
MaxBlocks == 2
\* number of violations of a scan report under review
MaxReviewed == 3
\* number of POST /api/scan requests
MaxScanRequests == 3
\* number of violations the scan of one skill finds
MaxSkillViolations == 2

----------------------------------------------------------------------------
(* Characters *)

Digits == {"0", "1", "2", "3", "4", "5", "6", "7", "8", "9"}
LowerLetters == {"a", "b", "c", "d", "e", "k", "o", "p", "r", "s", "t", "w"}
UpperLetters == {"S", "P"}
\* \w of a JavaScript regular expression, restricted to the model's alphabet
WordChars == Digits \cup LowerLetters \cup UpperLetters \cup {"_"}
\* \s of a JavaScript regular expression, restricted to the model's alphabet
NewLine == "\n"
SpaceChars == {" ", NewLine}

DigitVal == [c \in Digits |->
    CASE c = "0" -> 0 [] c = "1" -> 1 [] c = "2" -> 2 [] c = "3" -> 3
      [] c = "4" -> 4 [] c = "5" -> 5 [] c = "6" -> 6 [] c = "7" -> 7
      [] c = "8" -> 8 [] c = "9" -> 9]

\* String.prototype.toLowerCase on one character of the alphabet
lowerChar(c) == CASE c = "S" -> "s" [] c = "P" -> "p" [] OTHER -> c
toLowerCase(s) == [i \in 1..Len(s) |-> lowerChar(s[i])]

SeqRange(s) == {s[i] : i \in 1..Len(s)}

\* "*".repeat(n)
repeatStar(n) == [i \in 1..n |-> "*"]
Rep(c, n) == [i \in 1..n |-> c]

----------------------------------------------------------------------------
(* engine.ts: redact *)

\* redact keeping a 3-character prefix
redact_keepThree(match) ==
    IF Len(match) <= 6
    THEN repeatStar(Len(match))
    ELSE SubSeq(match, 1, 3) \o repeatStar(Len(match) - 5)
            \o SubSeq(match, Len(match) - 1, Len(match))

redact(match) ==
    IF Len(match) <= 6
    THEN repeatStar(Len(match))
    ELSE SubSeq(match, 1, 2) \o repeatStar(Len(match) - 4)
            \o SubSeq(match, Len(match) - 1, Len(match))

----------------------------------------------------------------------------
(* Regular expressions.  A pattern is a sequence of items; an item is a   *)
(* word boundary \b or a greedy quantified character class c{min,max}.    *)
(* Matching backtracks the way a JavaScript RegExp does: every class      *)
(* first takes as many characters as it can and gives them back one by    *)
(* one.  Positions are 0-based offsets as in JavaScript.                  *)

Cls(set, min, max) == [kind |-> "cls", set |-> set, min |-> min, max |-> max]
\* (?:c s*?){min,max}: a greedy count of groups, each one character of set
\* followed by as few characters of sep as the rest of the match allows
LazyGroups(set, sep, min, max) ==
    [kind |-> "groups", set |-> set, min |-> min, max |-> max, sep |-> sep]
WordBoundary == [kind |-> "wb", set |-> {}, min |-> 0, max |-> 0]

isWordAt(text, i) == i >= 1 /\ i <= Len(text) /\ text[i] \in WordChars
atWordBoundary(text, pos) == isWordAt(text, pos) # isWordAt(text, pos + 1)

\* how many characters from offset pos on are in the class, at most max
runLength(set, text, pos, max) ==
    CHOOSE n \in 0..max :
        /\ \A i \in 1..n : pos + i <= Len(text) /\ text[pos + i] \in set
        /\ \/ n = max
           \/ pos + n + 1 > Len(text)
           \/ text[pos + n + 1] \notin set

RECURSIVE matchHere(_, _, _, _)
RECURSIVE tryCount(_, _, _, _, _)
RECURSIVE tryGroups(_, _, _, _, _)
RECURSIVE trySeps(_, _, _, _, _, _)

\* end offset of the match of items k.. at offset pos, or -1
matchHere(items, k, text, pos) ==
    IF k > Len(items) THEN pos
    ELSE IF items[k].kind = "wb"
         THEN IF atWordBoundary(text, pos)
              THEN matchHere(items, k + 1, text, pos)
              ELSE -1
         ELSE IF items[k].kind = "groups"
         THEN tryGroups(items, k, text, pos, 0)
         ELSE tryCount(items, k, text, pos,
                       runLength(items[k].set, text, pos, items[k].max))

\* count groups are matched and end at pos: one more group is tried first,
\* then the rest of the pattern
tryGroups(items, k, text, pos, count) ==
    LET more == IF /\ count < items[k].max
                   /\ pos + 1 <= Len(text)
                   /\ text[pos + 1] \in items[k].set
                THEN trySeps(items, k, text, pos + 1, count + 1, 0)
                ELSE -1
    IN  IF more # -1 THEN more
        ELSE IF count >= items[k].min THEN matchHere(items, k + 1, text, pos)
        ELSE -1

\* the lazy separators of a group: n of them are taken, one more is taken
\* only when the match cannot go on without it
trySeps(items, k, text, pos, count, n) ==
    LET r == tryGroups(items, k, text, pos + n, count)
    IN  IF r # -1 THEN r
        ELSE IF pos + n + 1 <= Len(text) /\ text[pos + n + 1] \in items[k].sep
        THEN trySeps(items, k, text, pos, count, n + 1)
        ELSE -1

tryCount(items, k, text, pos, n) ==
    IF n < items[k].min THEN -1
    ELSE LET r == matchHere(items, k + 1, text, pos + n)
         IN  IF r # -1 THEN r ELSE tryCount(items, k, text, pos, n - 1)

RECURSIVE firstMatchFrom(_, _, _)
\* RegExp.prototype.exec of a global pattern with lastIndex = from:
\* the leftmost offset >= from at which the pattern matches, or -1
firstMatchFrom(items, text, from) ==
    IF from > Len(text) THEN -1
    ELSE IF matchHere(items, 1, text, from) # -1 THEN from
         ELSE firstMatchFrom(items, text, from + 1)

RECURSIVE execAll(_, _, _)
\* while ((match = re.exec(content)) !== null): all matches, in order
execAll(items, text, lastIndex) ==
    LET i == firstMatchFrom(items, text, lastIndex)
    IN  IF i = -1 THEN <<>>
        ELSE LET e == matchHere(items, 1, text, i)
             IN  <<[index |-> i, text |-> SubSeq(text, i + 1, e)]>>
                    \o execAll(items, text, e)

----------------------------------------------------------------------------
(* rules/pii.ts: luhnCheck and PII_PATTERNS *)

digitsOf(s) == SelectSeq(s, LAMBDA c : c \in Digits)

RECURSIVE luhnLoop(_, _, _, _)
\* the for loop of luhnCheck: i runs from nums.length - 1 down to 0
luhnLoop(nums, i, sum, alternate) ==
    IF i < 0 THEN sum
    ELSE LET n0 == DigitVal[nums[i + 1]]
             n1 == IF alternate THEN 2 * n0 ELSE n0
             n2 == IF alternate /\ n1 > 9 THEN n1 - 9 ELSE n1
         IN  luhnLoop(nums, i - 1, sum + n2, ~alternate)

luhnCheck(digits) ==
    LET nums == digitsOf(digits)
    IN  luhnLoop(nums, Len(nums) - 1, 0, FALSE) % 10 = 0

SepChars == {"-", ".", " "}

\* /\+?\d{1,3}[-.\s]?\(?\d{1,4}\)?[-.\s]?\d{1,4}[-.\s]?\d{1,9}/g
PhonePattern ==
    << Cls({"+"}, 0, 1), Cls(Digits, 1, 3), Cls(SepChars, 0, 1),
       Cls({"("}, 0, 1), Cls(Digits, 1, 4), Cls({")"}, 0, 1),
       Cls(SepChars, 0, 1), Cls(Digits, 1, 4), Cls(SepChars, 0, 1),
       Cls(Digits, 1, 9) >>

\* /\b\d(?:[\d -]{11,21})\d\b/g
CreditCardPattern ==
    << WordBoundary, Cls(Digits, 1, 1), Cls(Digits \cup {" ", "-"}, 11, 21),
       Cls(Digits, 1, 1), WordBoundary >>

\* /\b\d{3}-\d{2}-\d{4}\b/g
SsnPattern ==
    << WordBoundary, Cls(Digits, 3, 3), Cls({"-"}, 1, 1), Cls(Digits, 2, 2),
       Cls({"-"}, 1, 1), Cls(Digits, 4, 4), WordBoundary >>

PiiTypes == {"phone", "ssn", "credit-card"}

PII_PATTERNS(type) ==
    CASE type = "phone" -> <<PhonePattern>>
      [] type = "ssn" -> <<SsnPattern>>
      [] type = "credit-card" -> <<CreditCardPattern>>
      [] OTHER -> <<>>

----------------------------------------------------------------------------
(* engine.ts: scanPiiRule, scanContentRule, scanContent, resolveAction *)

Actions == {"warn", "block", "shutdown"}

Violation(rule, matched, position) ==
    [ruleId |-> rule.id, category |-> rule.category, action |-> rule.action,
     matchPreview |-> redact(matched), position |-> position]

\* the post-match filters without the Luhn check
piiKeeps_noLuhn(type, matched) ==
    LET digits == digitsOf(matched)
    IN  /\ type = "credit-card" => ~(Len(digits) < 13 \/ Len(digits) > 19)
        /\ type = "phone" => ~(Len(digits) < 7)

\* the two post-match filters of scanPiiRule; TRUE when the match is kept
piiKeeps(type, matched) ==
    LET digits == digitsOf(matched)
    IN  /\ type = "credit-card" =>
              ~(Len(digits) < 13 \/ Len(digits) > 19 \/ ~luhnCheck(digits))
        /\ type = "phone" => ~(Len(digits) < 7)

violationsOfMatches(rule, matches) ==
    [i \in 1..Len(matches) |-> Violation(rule, matches[i].text, matches[i].index)]

RECURSIVE concatAll(_)
concatAll(seqs) ==
    IF seqs = <<>> THEN <<>> ELSE Head(seqs) \o concatAll(Tail(seqs))

scanPiiRule(text, rule) ==
    IF rule.type = "none" THEN <<>>
    ELSE LET patterns == PII_PATTERNS(rule.type)
             kept(p) == SelectSeq(execAll(p, text, 0),
                                  LAMBDA m : piiKeeps(rule.type, m.text))
         IN  concatAll([k \in 1..Len(patterns) |->
                            violationsOfMatches(rule, kept(patterns[k]))])

\* String.prototype.indexOf(needle, from), 0-based, -1 when absent
RECURSIVE indexOf(_, _, _)
indexOf(hay, needle, from) ==
    IF from + Len(needle) > Len(hay) THEN -1
    ELSE IF SubSeq(hay, from + 1, from + Len(needle)) = needle THEN from
         ELSE indexOf(hay, needle, from + 1)

RECURSIVE keywordLoop(_, _, _, _, _)
\* the while loop over one keyword, pos being its loop variable
keywordLoop(text, lowerContent, rule, keyword, pos) ==
    LET p == indexOf(lowerContent, toLowerCase(keyword), pos)
    IN  IF p = -1 THEN <<>>
        ELSE <<Violation(rule, SubSeq(text, p + 1, p + Len(keyword)), p)>>
                \o keywordLoop(text, lowerContent, rule, keyword, p + Len(keyword))

scanContentRule(text, rule) ==
    LET fromPatterns ==
            concatAll([k \in 1..Len(rule.patterns) |->
                violationsOfMatches(rule, execAll(rule.patterns[k], text, 0))])
        fromKeywords ==
            concatAll([k \in 1..Len(rule.keywords) |->
                keywordLoop(text, toLowerCase(text), rule, rule.keywords[k], 0)])
    IN  fromPatterns \o fromKeywords

\* one iteration of the for loop without the enabled test
scanOneRule_ignoreEnabled(text, rule) ==
    IF rule.category = "pii" THEN scanPiiRule(text, rule)
    ELSE scanContentRule(text, rule)

\* one iteration of the for loop of scanContent
scanOneRule(text, rule) ==
    IF ~rule.enabled THEN <<>>
    ELSE IF rule.category = "pii" THEN scanPiiRule(text, rule)
         ELSE scanContentRule(text, rule)

scanContent(text, ruleList) ==
    concatAll([k \in 1..Len(ruleList) |-> scanOneRule(text, ruleList[k])])

\* the severity table with block and shutdown exchanged
ACTION_SEVERITY_swapped(a) ==
    CASE a = "warn" -> 0 [] a = "block" -> 2 [] a = "shutdown" -> 1

ACTION_SEVERITY(a) == CASE a = "warn" -> 0 [] a = "block" -> 1 [] a = "shutdown" -> 2

RECURSIVE resolveLoop(_, _)
resolveLoop(vs, maxAction) ==
    IF vs = <<>> THEN maxAction
    ELSE resolveLoop(Tail(vs),
            IF ACTION_SEVERITY(Head(vs).action) > ACTION_SEVERITY(maxAction)
            THEN Head(vs).action ELSE maxAction)

resolveAction(vs) == resolveLoop(vs, "warn")

----------------------------------------------------------------------------
(* Inputs of the detection engine *)

Visa16 == <<"4">> \o Rep("1", 15)
Invalid16 == <<"1", "2", "3", "4", "5", "6", "7", "8", "9", "0",
               "1", "2", "3", "4", "5", "6">>
VisaSpaced == <<"4", "1", "1", "1", " ", "1", "1", "1", "1", " ",
                "1", "1", "1", "1", " ", "1", "1", "1", "1">>
\* 12 digits in 14 characters: Luhn-valid, too few digits
Zeros12 == <<"0", "0", "0", "0", "-", "0", "0", "0", "0", "-",
             "0", "0", "0", "0">>
\* 20 digits: Luhn-valid, too many digits
Long20 == Rep("0", 4) \o Visa16
PhoneFull == <<"+", "1", "-", "5", "5", "5", "-", "1", "2", "3", "-",
               "4", "5", "6", "7">>
PhoneShort == <<"1", "2", "-", "3", "4", "-", "5", "6">>
SecretWord == <<"S", "e", "c", "r", "e", "t", "s", "1">>
MaskedWord == <<"p", "w", "*", "*", "*", "*", "o", "k">>

Tokens == {Visa16, Invalid16, VisaSpaced, Zeros12, Long20, PhoneFull,
           PhoneShort, SecretWord, MaskedWord}

RECURSIVE TextsOf(_)
\* the texts made of 1..n tokens separated by one space
TextsOf(n) ==
    IF n = 1 THEN Tokens
    ELSE LET shorter == TextsOf(n - 1)
         IN  shorter \cup {t \o <<" ">> \o u : t \in shorter, u \in Tokens}

Contents == TextsOf(MaxTokens)

\* a custom content pattern /pw\*+ok/g
MaskedPattern ==
    << Cls({"p"}, 1, 1), Cls({"w"}, 1, 1), Cls({"*"}, 1, 9),
       Cls({"o"}, 1, 1), Cls({"k"}, 1, 1) >>

SecretKeyword == <<"s", "e", "c", "r", "e", "t", "s", "1">>
MaskedKeyword == <<"p", "w", "*", "*", "*", "*", "o", "k">>

\* the matcher of the content rule: its patterns and its keywords
ContentMatchers ==
    { [patterns |-> <<MaskedPattern>>, keywords |-> <<SecretKeyword>>],
      [patterns |-> <<>>, keywords |-> <<MaskedKeyword, SecretKeyword>>],
      [patterns |-> <<>>, keywords |-> <<>>] }

Rule(id, category, enabled, action, type, patterns, keywords) ==
    [id |-> id, category |-> category, enabled |-> enabled, action |-> action,
     type |-> type, patterns |-> patterns, keywords |-> keywords]

\* getPiiRules() entries for credit-card and phone, and one content rule;
\* the enabled flags and the content rule's matcher are configuration
RuleLists ==
    { << Rule("pii-credit-card", "pii", e1, "shutdown", "credit-card", <<>>, <<>>),
         Rule("pii-phone", "pii", e2, "block", "phone", <<>>, <<>>),
         Rule("content-custom", "content", e3, "warn", "none",
              m.patterns, m.keywords) >> :
        e1 \in BOOLEAN, e2 \in BOOLEAN, e3 \in BOOLEAN, m \in ContentMatchers }

RECURSIVE SeqsUpTo(_, _)
SeqsUpTo(S, n) ==
    IF n = 0 THEN {<<>>}
    ELSE LET shorter == SeqsUpTo(S, n - 1)
         IN  shorter \cup {Append(s, x) : s \in shorter, x \in S}

\* violations as resolveAction sees them: only the action matters
ViolationLists ==
    { [i \in 1..Len(as) |->
          [ruleId |-> "test", category |-> "content", action |-> as[i],
           matchPreview |-> <<"x">>, position |-> 0]] :
        as \in SeqsUpTo(Actions, MaxViolations) }

----------------------------------------------------------------------------
(* Idle values: a subsystem that a specification does not exercise *)

ResolveIdle == rvList = <<>> /\ rvResult = "none"
ScanIdle == content = <<>> /\ rules = <<>> /\ ruleIdx = 1 /\ violations = <<>>
IntegrityIdle ==
    /\ fs = <<>> /\ baseline = "idle" /\ opResult = "idle"
    /\ changes = 0 /\ dirty = FALSE

RedactIdle ==
    /\ sfs = <<>> /\ now = 0 /\ rdPending = <<>> /\ rdPc = "idle"
    /\ rdLocal = <<>> /\ rdResults = <<>> /\ rdBefore = <<>> /\ rdIo = <<>>
    /\ rdCalls = 0 /\ rdDecisions = <<>>
QuarantineIdle ==
    /\ qfs = <<>> /\ ledger = <<>> /\ qIds = 0 /\ qClock = 0 /\ qRet = <<>>
    /\ qTaken = <<>>

PersistIdle == pfs = <<>> /\ saver = <<>> /\ savePrev = <<>> /\ saves = 0

InstallIdle ==
    /\ isPc = "idle" /\ options = <<>> /\ preScan = <<>> /\ postScan = <<>>
    /\ marker = "none" /\ enableCalled = FALSE /\ approvals = <<>>
    /\ installs = 0

CatchIdle ==
    /\ catchPc = "idle" /\ catchOptions = <<>> /\ ran = <<>>
    /\ needsBaselineCreation = FALSE

DashboardIdle ==
    /\ dPc = "idle" /\ payload = <<>> /\ body = 0 /\ res = <<>>
    /\ ruleConfig = <<>> /\ configBefore = <<>> /\ requests = 0

LoopIdle ==
    /\ lpContent = <<>> /\ lpMatcher = <<>> /\ lpPos = 0 /\ lpPushed = 0
    /\ lpPc = "idle"

RoundTripIdle ==
    /\ rtInput = <<>> /\ rtOutput = <<>> /\ rtPc = "idle"

RaceIdle ==
    /\ raceFs = <<>> /\ raceLedger = <<>> /\ raceTemp = <<>> /\ procs = <<>>
    /\ raceClock = 0 /\ overlapped = FALSE

MaskIdle ==
    /\ maskRaw = <<>> /\ maskPreview = <<>> /\ maskRewritten = <<>>
    /\ maskPc = "idle"

BlocksIdle ==
    /\ blkContent = <<>> /\ blkBefore = <<>> /\ blkRule = ""
    /\ blkCount = 0 /\ blkPc = "idle"

ReviewIdle ==
    /\ irViolations = <<>> /\ irPc = "idle" /\ irDecisions = <<>>
    /\ irBulk = [action |-> "none", at |-> 0] /\ irNext = 1
    /\ irPrompted = {} /\ irAnswers = [review |-> "none", proceed |-> "none"]
    /\ irTouched = {}

DashScanIdle ==
    /\ scanInProgress = FALSE /\ lastScanResult = "null"
    /\ scanCalls = <<>> /\ scansStarted = 0

SkillScanIdle ==
    /\ ssEntries = {} /\ ssOptions = [quarantine |-> FALSE] /\ ssPc = "idle"
    /\ ssSkills = <<>> /\ ssIdx = 1
    /\ ssReport = [skillsScanned |-> 0, findings |-> <<>>, quarantinedCount |-> 0,
                    errors |-> <<>>]
    /\ ssListed = {} /\ ssCalls = {} /\ ssThrown = 0

RewriteIdle ==
    /\ rwText = <<>> /\ rwRule = "none" /\ rwFound = <<>> /\ rwOut = <<>>
    /\ rwPc = "idle"

StopIdle ==
    /\ stFs = <<>> /\ stLedger = <<>> /\ stTemp = <<>> /\ stCall = <<>>
    /\ stIds = 0 /\ stClock = 0

IdleButResolve == ScanIdle /\ IntegrityIdle /\ RedactIdle /\ QuarantineIdle
    /\ PersistIdle /\ InstallIdle /\ CatchIdle /\ DashboardIdle /\ LoopIdle
    /\ RoundTripIdle /\ RaceIdle /\ MaskIdle /\ BlocksIdle /\ ReviewIdle
    /\ DashScanIdle /\ SkillScanIdle /\ RewriteIdle /\ StopIdle
IdleButScan == ResolveIdle /\ IntegrityIdle /\ RedactIdle /\ QuarantineIdle
    /\ PersistIdle /\ InstallIdle /\ CatchIdle /\ DashboardIdle /\ LoopIdle
    /\ RoundTripIdle /\ RaceIdle /\ MaskIdle /\ BlocksIdle /\ ReviewIdle
    /\ DashScanIdle /\ SkillScanIdle /\ RewriteIdle /\ StopIdle
IdleButIntegrity == ResolveIdle /\ ScanIdle /\ RedactIdle /\ QuarantineIdle
    /\ PersistIdle /\ InstallIdle /\ CatchIdle /\ DashboardIdle /\ LoopIdle
    /\ RoundTripIdle /\ RaceIdle /\ MaskIdle /\ BlocksIdle /\ ReviewIdle
    /\ DashScanIdle /\ SkillScanIdle /\ RewriteIdle /\ StopIdle
IdleButRedact == ResolveIdle /\ ScanIdle /\ IntegrityIdle /\ QuarantineIdle
    /\ PersistIdle /\ InstallIdle /\ CatchIdle /\ DashboardIdle /\ LoopIdle
    /\ RoundTripIdle /\ RaceIdle /\ MaskIdle /\ BlocksIdle /\ ReviewIdle
    /\ DashScanIdle /\ SkillScanIdle /\ RewriteIdle /\ StopIdle
IdleButQuarantine == ResolveIdle /\ ScanIdle /\ IntegrityIdle /\ RedactIdle
    /\ PersistIdle /\ InstallIdle /\ CatchIdle /\ DashboardIdle /\ LoopIdle
    /\ RoundTripIdle /\ RaceIdle /\ MaskIdle /\ BlocksIdle /\ ReviewIdle
    /\ DashScanIdle /\ SkillScanIdle /\ RewriteIdle /\ StopIdle
IdleButPersist == ResolveIdle /\ ScanIdle /\ IntegrityIdle /\ RedactIdle
    /\ QuarantineIdle /\ InstallIdle /\ CatchIdle /\ DashboardIdle
    /\ LoopIdle /\ RoundTripIdle /\ RaceIdle /\ MaskIdle /\ BlocksIdle
    /\ ReviewIdle /\ DashScanIdle /\ SkillScanIdle /\ RewriteIdle
    /\ StopIdle
IdleButInstall == ResolveIdle /\ ScanIdle /\ IntegrityIdle /\ RedactIdle
    /\ QuarantineIdle /\ PersistIdle /\ CatchIdle /\ DashboardIdle
    /\ LoopIdle /\ RoundTripIdle /\ RaceIdle /\ MaskIdle /\ BlocksIdle
    /\ ReviewIdle /\ DashScanIdle /\ SkillScanIdle /\ RewriteIdle
    /\ StopIdle
IdleButCatch == ResolveIdle /\ ScanIdle /\ IntegrityIdle /\ RedactIdle
    /\ QuarantineIdle /\ PersistIdle /\ InstallIdle /\ DashboardIdle
    /\ LoopIdle /\ RoundTripIdle /\ RaceIdle /\ MaskIdle /\ BlocksIdle
    /\ ReviewIdle /\ DashScanIdle /\ SkillScanIdle /\ RewriteIdle
    /\ StopIdle
IdleButDashboard == ResolveIdle /\ ScanIdle /\ IntegrityIdle /\ RedactIdle
    /\ QuarantineIdle /\ PersistIdle /\ InstallIdle /\ CatchIdle
    /\ LoopIdle /\ RoundTripIdle /\ RaceIdle /\ MaskIdle /\ BlocksIdle
    /\ ReviewIdle /\ DashScanIdle /\ SkillScanIdle /\ RewriteIdle
    /\ StopIdle
IdleButLoop == ResolveIdle /\ ScanIdle /\ IntegrityIdle /\ RedactIdle
    /\ QuarantineIdle /\ PersistIdle /\ InstallIdle /\ CatchIdle
    /\ DashboardIdle /\ RoundTripIdle /\ RaceIdle /\ MaskIdle /\ BlocksIdle
    /\ ReviewIdle /\ DashScanIdle /\ SkillScanIdle /\ RewriteIdle
    /\ StopIdle
IdleButRoundTrip == ResolveIdle /\ ScanIdle /\ IntegrityIdle /\ RedactIdle
    /\ QuarantineIdle /\ PersistIdle /\ InstallIdle /\ CatchIdle
    /\ DashboardIdle /\ LoopIdle /\ RaceIdle /\ MaskIdle /\ BlocksIdle
    /\ ReviewIdle /\ DashScanIdle /\ SkillScanIdle /\ RewriteIdle
    /\ StopIdle
IdleButRace == ResolveIdle /\ ScanIdle /\ IntegrityIdle /\ RedactIdle
    /\ QuarantineIdle /\ PersistIdle /\ InstallIdle /\ CatchIdle
    /\ DashboardIdle /\ LoopIdle /\ RoundTripIdle /\ MaskIdle /\ BlocksIdle
    /\ ReviewIdle /\ DashScanIdle /\ SkillScanIdle /\ RewriteIdle
    /\ StopIdle
IdleButMask == ResolveIdle /\ ScanIdle /\ IntegrityIdle /\ RedactIdle
    /\ QuarantineIdle /\ PersistIdle /\ InstallIdle /\ CatchIdle
    /\ DashboardIdle /\ LoopIdle /\ RoundTripIdle /\ RaceIdle /\ BlocksIdle
    /\ ReviewIdle /\ DashScanIdle /\ SkillScanIdle /\ RewriteIdle
    /\ StopIdle
IdleButBlocks == ResolveIdle /\ ScanIdle /\ IntegrityIdle /\ RedactIdle
    /\ QuarantineIdle /\ PersistIdle /\ InstallIdle /\ CatchIdle
    /\ DashboardIdle /\ LoopIdle /\ RoundTripIdle /\ RaceIdle /\ MaskIdle
    /\ ReviewIdle /\ DashScanIdle /\ SkillScanIdle /\ RewriteIdle
    /\ StopIdle
IdleButReview == ResolveIdle /\ ScanIdle /\ IntegrityIdle /\ RedactIdle
    /\ QuarantineIdle /\ PersistIdle /\ InstallIdle /\ CatchIdle
    /\ DashboardIdle /\ LoopIdle /\ RoundTripIdle /\ RaceIdle /\ MaskIdle
    /\ BlocksIdle /\ DashScanIdle /\ SkillScanIdle /\ RewriteIdle
    /\ StopIdle
IdleButDashScan == ResolveIdle /\ ScanIdle /\ IntegrityIdle /\ RedactIdle
    /\ QuarantineIdle /\ PersistIdle /\ InstallIdle /\ CatchIdle
    /\ DashboardIdle /\ LoopIdle /\ RoundTripIdle /\ RaceIdle /\ MaskIdle
    /\ BlocksIdle /\ ReviewIdle /\ SkillScanIdle /\ RewriteIdle /\ StopIdle
IdleButSkillScan == ResolveIdle /\ ScanIdle /\ IntegrityIdle /\ RedactIdle
    /\ QuarantineIdle /\ PersistIdle /\ InstallIdle /\ CatchIdle
    /\ DashboardIdle /\ LoopIdle /\ RoundTripIdle /\ RaceIdle /\ MaskIdle
    /\ BlocksIdle /\ ReviewIdle /\ DashScanIdle /\ RewriteIdle /\ StopIdle
IdleButRewrite == ResolveIdle /\ ScanIdle /\ IntegrityIdle /\ RedactIdle
    /\ QuarantineIdle /\ PersistIdle /\ InstallIdle /\ CatchIdle
    /\ DashboardIdle /\ LoopIdle /\ RoundTripIdle /\ RaceIdle /\ MaskIdle
    /\ BlocksIdle /\ ReviewIdle /\ DashScanIdle /\ SkillScanIdle
    /\ StopIdle
IdleButStop == ResolveIdle /\ ScanIdle /\ IntegrityIdle /\ RedactIdle
    /\ QuarantineIdle /\ PersistIdle /\ InstallIdle /\ CatchIdle
    /\ DashboardIdle /\ LoopIdle /\ RoundTripIdle /\ RaceIdle /\ MaskIdle
    /\ BlocksIdle /\ ReviewIdle /\ DashScanIdle /\ SkillScanIdle
    /\ RewriteIdle

----------------------------------------------------------------------------
(* Specification SpecResolve: resolveAction applied to a violation list *)

ResolveInit ==
    /\ rvList \in ViolationLists
    /\ rvResult = "none"
    /\ IdleButResolve

ResolveCall ==
    /\ rvResult = "none"
    /\ rvResult' = resolveAction(rvList)
    /\ UNCHANGED <<rvList, otherThanResolve>>

ResolveNext == ResolveCall

SpecResolve == ResolveInit /\ [][ResolveNext]_vars

----------------------------------------------------------------------------
(* Specification SpecScan: scanContent, one rule of its for loop per step *)

ScanInit ==
    /\ content \in Contents
    /\ rules \in RuleLists
    /\ ruleIdx = 1
    /\ violations = <<>>
    /\ IdleButScan

\* if (!rule.enabled) continue;
ScanSkipDisabled ==
    /\ ruleIdx <= Len(rules)
    /\ ~rules[ruleIdx].enabled
    /\ violations' = violations \o scanOneRule(content, rules[ruleIdx])
    /\ ruleIdx' = ruleIdx + 1
    /\ UNCHANGED <<content, rules, otherThanScan>>

\* violations.push(...scanPiiRule(content, rule))
ScanPii ==
    /\ ruleIdx <= Len(rules)
    /\ rules[ruleIdx].enabled
    /\ rules[ruleIdx].category = "pii"
    /\ violations' = violations \o scanOneRule(content, rules[ruleIdx])
    /\ ruleIdx' = ruleIdx + 1
    /\ UNCHANGED <<content, rules, otherThanScan>>

\* violations.push(...scanContentRule(content, rule))
ScanContentRule ==
    /\ ruleIdx <= Len(rules)
    /\ rules[ruleIdx].enabled
    /\ rules[ruleIdx].category # "pii"
    /\ violations' = violations \o scanOneRule(content, rules[ruleIdx])
    /\ ruleIdx' = ruleIdx + 1
    /\ UNCHANGED <<content, rules, otherThanScan>>

ScanNext == ScanSkipDisabled \/ ScanPii \/ ScanContentRule

SpecScan == ScanInit /\ [][ScanNext]_vars

scanDone == ruleIdx > Len(rules) /\ rules # <<>>

----------------------------------------------------------------------------
(* The filesystem.  A path is the sequence of its components, so          *)
(* <<"ext", "a", "f">> is /ext/a/f.  The extensions directory /ext holds  *)
(* the skills a and b; /ext-evil and its file s lie outside of it.        *)

Root == <<"ext">>
SkillA == <<"ext", "a">>
SkillB == <<"ext", "b">>
OutsideDir == <<"ext-evil">>
OutsideFile == <<"ext-evil", "s">>
MissingPath == <<"ext", "gone">>

StaticDirs == {Root, SkillA, SkillB, OutsideDir}
FileSlots == {<<"ext", "a", "f">>, <<"ext", "b", "g">>, <<"ext", "constructor">>}
LinkSlots == {<<"ext", "a", "l">>, <<"ext", "b", "m">>}
AllPaths == StaticDirs \cup FileSlots \cup LinkSlots \cup {OutsideFile}
LinkTargets == {<<"ext", "a", "f">>, SkillB, Root, OutsideDir, OutsideFile,
                MissingPath} \cup LinkSlots

\* 50 * 1024 * 1024
MAX_HASHABLE_SIZE == 52428800
\* 2 * 1024 * 1024
MaxScanSize == 2097152

FileContents == {"c1", "c2", "huge"}
SecretContent == "secret"
sizeOf(c) == IF c = "huge" THEN MAX_HASHABLE_SIZE + 1 ELSE 16

NoNode == [kind |-> "none", content |-> "", target |-> <<>>]
DirNode == [kind |-> "dir", content |-> "", target |-> <<>>]
FileNode(c) == [kind |-> "file", content |-> c, target |-> <<>>]
LinkNode(t) == [kind |-> "link", content |-> "", target |-> t]

nodeAt(fsys, p) == IF p \in DOMAIN fsys THEN fsys[p] ELSE NoNode

\* collation rank of the names of the model, for localeCompare and readdir
NameOrder == <<"a", "b", "constructor", "ext", "ext-evil", "f", "g", "gone",
               "l", "m", "s", "..">>
nameRank(n) == CHOOSE i \in 1..Len(NameOrder) : NameOrder[i] = n

RECURSIVE localeLess(_, _)
\* a.localeCompare(b) < 0 for two paths
localeLess(p, q) ==
    IF q = <<>> THEN FALSE
    ELSE IF p = <<>> THEN TRUE
    ELSE IF Head(p) # Head(q) THEN nameRank(Head(p)) < nameRank(Head(q))
    ELSE localeLess(Tail(p), Tail(q))

RECURSIVE insertSorted(_, _)
insertSorted(sorted, x) ==
    IF sorted = <<>> THEN <<x>>
    ELSE IF localeLess(x, Head(sorted)) THEN <<x>> \o sorted
    ELSE <<Head(sorted)>> \o insertSorted(Tail(sorted), x)

\* the array left in the order it came in
sortPaths_unsorted(ps) == ps

RECURSIVE sortPaths(_)
\* array.sort((a, b) => a.localeCompare(b)), stable
sortPaths(ps) ==
    IF ps = <<>> THEN <<>>
    ELSE insertSorted(sortPaths(SubSeq(ps, 1, Len(ps) - 1)), ps[Len(ps)])

\* the order in which readdir returns the entries of a directory
Orders == {"asc", "desc"}

RECURSIVE setToSeq(_)
setToSeq(S) ==
    IF S = {} THEN <<>>
    ELSE LET x == CHOOSE y \in S : \A z \in S : z = y \/ localeLess(y, z)
         IN  <<x>> \o setToSeq(S \ {x})

reverse(s) == [i \in 1..Len(s) |-> s[Len(s) + 1 - i]]

\* readdir(dir): the names of the entries of dir, in the order ord
readdir(fsys, dir, ord) ==
    LET children == {p \in DOMAIN fsys :
                        /\ Len(p) = Len(dir) + 1
                        /\ SubSeq(p, 1, Len(dir)) = dir
                        /\ fsys[p].kind # "none"}
        asc == setToSeq(children)
        names == [i \in 1..Len(asc) |-> asc[i][Len(dir) + 1]]
    IN  IF ord = "asc" THEN names ELSE reverse(names)

RealpathError == <<"ENOENT">>

RECURSIVE followLinks(_, _, _)
\* realpath(p): symbolic links resolved; an error for a dangling link or a loop
followLinks(fsys, p, hops) ==
    LET n == nodeAt(fsys, p)
    IN  IF n.kind = "none" THEN RealpathError
        ELSE IF n.kind # "link" THEN p
        ELSE IF hops = 0 THEN RealpathError
        ELSE followLinks(fsys, n.target, hops - 1)

realpath(fsys, p) == followLinks(fsys, p, Cardinality(LinkSlots))

\* stat(p): the node the path leads to, links followed
statNode(fsys, p) ==
    LET r == realpath(fsys, p)
    IN  IF r = RealpathError THEN NoNode ELSE nodeAt(fsys, r)

\* names of the model of which another name is a string prefix
NamePrefixes == {<<"ext", "ext-evil">>}
nameStartsWith(name, prefix) == name = prefix \/ <<prefix, name>> \in NamePrefixes

\* the boundary test with the separator left out: resolved.startsWith(root)
withinRoot_noSeparator(resolved, root) ==
    /\ Len(resolved) >= Len(root)
    /\ SubSeq(resolved, 1, Len(root) - 1) = SubSeq(root, 1, Len(root) - 1)
    /\ nameStartsWith(resolved[Len(root)], root[Len(root)])

\* !( !resolved.startsWith(root + "/") && resolved !== root )
withinRoot(resolved, root) ==
    \/ Len(resolved) > Len(root) /\ SubSeq(resolved, 1, Len(root)) = root
    \/ resolved = root

----------------------------------------------------------------------------
(* integrity.ts: listFilesRecursive, snapshotDirectoryHashes,             *)
(* hashDirectorySha256, the baseline and detectExtensionsIntegrityDrift   *)

RECURSIVE listFilesRecursive(_, _, _, _, _)
RECURSIVE listEntries(_, _, _, _, _, _, _)

\* the visited set copied into each call instead of shared between the calls
listFilesRecursive_seenCopied(fsys, dir, root, seen, ord) ==
    LET resolvedDir == realpath(fsys, dir)
    IN  IF resolvedDir = RealpathError THEN [files |-> <<>>, seen |-> seen]
        ELSE IF resolvedDir \in seen THEN [files |-> <<>>, seen |-> seen]
        ELSE [files |-> listEntries(fsys, dir, readdir(fsys, dir, ord), root,
                                    seen \cup {resolvedDir}, ord, <<>>).files,
              seen |-> seen]

\* returns the files found and the visited set as the call leaves it
listFilesRecursive(fsys, dir, root, seen, ord) ==
    LET resolvedDir == realpath(fsys, dir)
    IN  IF resolvedDir = RealpathError THEN [files |-> <<>>, seen |-> seen]
        ELSE IF resolvedDir \in seen THEN [files |-> <<>>, seen |-> seen]
        ELSE listEntries(fsys, dir, readdir(fsys, dir, ord), root,
                         seen \cup {resolvedDir}, ord, <<>>)

\* the for loop over the entries of dir
listEntries(fsys, dir, entries, root, seen, ord, files) ==
    IF entries = <<>> THEN [files |-> files, seen |-> seen]
    ELSE
      LET entryPath == Append(dir, Head(entries))
          info == nodeAt(fsys, entryPath)
          rest == Tail(entries)
          skip == listEntries(fsys, dir, rest, root, seen, ord, files)
          push == listEntries(fsys, dir, rest, root, seen, ord,
                              Append(files, entryPath))
      IN  IF info.kind = "dir" THEN
              LET r == listFilesRecursive(fsys, entryPath, root, seen, ord)
              IN  listEntries(fsys, dir, rest, root, r.seen, ord, files \o r.files)
          ELSE IF info.kind = "file" THEN
              IF sizeOf(info.content) <= MAX_HASHABLE_SIZE THEN push ELSE skip
          ELSE IF info.kind = "link" THEN
              LET resolved == realpath(fsys, entryPath)
                  targetInfo == statNode(fsys, entryPath)
              IN  IF resolved = RealpathError THEN skip
                  ELSE IF ~withinRoot(resolved, root) THEN skip
                  ELSE IF /\ targetInfo.kind = "file"
                          /\ sizeOf(targetInfo.content) <= MAX_HASHABLE_SIZE
                       THEN push
                  ELSE IF targetInfo.kind = "dir" THEN
                      LET r == listFilesRecursive(fsys, resolved, root, seen, ord)
                      IN  listEntries(fsys, dir, rest, root, r.seen, ord,
                                      files \o r.files)
                  ELSE skip
          ELSE skip

\* SHA-256 as an injective function of what is hashed
sha256(data) == <<"sha256", data>>

\* hashFileSha256: the stream reads through symbolic links
hashFileSha256(fsys, filePath) == sha256(statNode(fsys, filePath).content)

RECURSIVE commonPrefixLen(_, _)
commonPrefixLen(p, q) ==
    IF p = <<>> \/ q = <<>> \/ Head(p) # Head(q) THEN 0
    ELSE 1 + commonPrefixLen(Tail(p), Tail(q))

\* path.relative(from, to), then normalizeRelativePath
relative(from, to) ==
    LET k == commonPrefixLen(from, to)
    IN  [i \in 1..(Len(from) - k) |-> ".."] \o SubSeq(to, k + 1, Len(to))

hasOwn(obj, key) == \E i \in 1..Len(obj) : obj[i].path = key
\* obj[key]: the own value, else what Object.prototype holds under the name
jsGet(obj, key) ==
    IF hasOwn(obj, key) THEN (CHOOSE e \in SeqRange(obj) : e.path = key).hash
    ELSE <<"inherited", key>>

\* a JavaScript object with string values is a sequence of [path, hash]
\* entries in insertion order; obj[key] = value
objectSet(obj, key, value) ==
    IF hasOwn(obj, key)
    THEN [i \in 1..Len(obj) |->
             IF obj[i].path = key THEN [path |-> key, hash |-> value] ELSE obj[i]]
    ELSE Append(obj, [path |-> key, hash |-> value])

objectKeys(obj) == [i \in 1..Len(obj) |-> obj[i].path]
\* the property names every object inherits from Object.prototype
ObjectPrototypeKeys ==
    {"constructor", "hasOwnProperty", "isPrototypeOf", "propertyIsEnumerable",
     "toLocaleString", "toString", "valueOf", "__defineGetter__",
     "__defineSetter__", "__lookupGetter__", "__lookupSetter__", "__proto__"}

\* the in operator: own and inherited properties
jsIn(key, obj) ==
    \/ hasOwn(obj, key)
    \/ Len(key) = 1 /\ key[1] \in ObjectPrototypeKeys

RECURSIVE snapshotLoop(_, _, _, _)
snapshotLoop(fsys, rootDir, files, snapshot) ==
    IF files = <<>> THEN snapshot
    ELSE snapshotLoop(fsys, rootDir, Tail(files),
            objectSet(snapshot, relative(rootDir, Head(files)),
                      hashFileSha256(fsys, Head(files))))

snapshotDirectoryHashes(fsys, rootDir, ord) ==
    LET files == listFilesRecursive(fsys, rootDir, rootDir, {}, ord).files
    IN  snapshotLoop(fsys, rootDir, sortPaths(files), <<>>)

hashDirectorySha256(fsys, dir, ord) ==
    LET files == snapshotDirectoryHashes(fsys, dir, ord)
        sorted == sortPaths(objectKeys(files))
        lines == [i \in 1..Len(sorted) |-> <<jsGet(files, sorted[i]), sorted[i]>>]
    IN  [op |-> "hash", hash |-> sha256(lines), fileCount |-> Len(files),
         files |-> files]

NoBaselineFile == [version |-> 0, rootDir |-> <<>>, files |-> <<>>]
StaleBaselineFile == [version |-> 2, rootDir |-> Root, files |-> <<>>]

\* null for a missing file or another version
loadIntegrityBaseline(file) == IF file.version # 1 THEN NoBaselineFile ELSE file

\* Object.keys(current).filter((file) => !(file in baselineFiles))
driftAdded(current, baselineFiles) ==
    SelectSeq(objectKeys(current), LAMBDA f : ~jsIn(f, baselineFiles))

\* Object.keys(baselineFiles).filter((file) => !(file in current))
driftRemoved(current, baselineFiles) ==
    SelectSeq(objectKeys(baselineFiles), LAMBDA f : ~jsIn(f, current))

\* the modified filter with === in the place of !==
driftModified_equal(current, baselineFiles) ==
    SelectSeq(objectKeys(current),
              LAMBDA f : /\ jsIn(f, baselineFiles)
                         /\ jsGet(baselineFiles, f) = jsGet(current, f))

\* file in baselineFiles && baselineFiles[file] !== current[file]
driftModified(current, baselineFiles) ==
    SelectSeq(objectKeys(current),
              LAMBDA f : /\ jsIn(f, baselineFiles)
                         /\ jsGet(baselineFiles, f) # jsGet(current, f))

detectExtensionsIntegrityDrift(fsys, file, ord) ==
    LET rootDir == Root
        loaded == loadIntegrityBaseline(file)
    IN  IF loaded = NoBaselineFile
        THEN [op |-> "drift", baselinePresent |-> FALSE, rootDir |-> rootDir,
              added |-> <<>>, removed |-> <<>>, modified |-> <<>>]
        ELSE
          LET current == snapshotDirectoryHashes(fsys, rootDir, ord)
              baselineFiles == loaded.files
          IN  [op |-> "drift", baselinePresent |-> TRUE, rootDir |-> loaded.rootDir,
               added |-> sortPaths(driftAdded(current, baselineFiles)),
               removed |-> sortPaths(driftRemoved(current, baselineFiles)),
               modified |-> sortPaths(driftModified(current, baselineFiles))]

----------------------------------------------------------------------------
(* skill-scan.ts: listFilesRecursive and the file loop of                 *)
(* scanInstalledSkills, up to the content handed to scanContent           *)

RECURSIVE skillListFilesRecursive(_, _, _, _)
RECURSIVE skillListEntries(_, _, _, _, _, _)

skillListFilesRecursive(fsys, dir, root, ord) ==
    skillListEntries(fsys, dir, readdir(fsys, dir, ord), root, ord, <<>>)

skillListEntries(fsys, dir, entries, root, ord, files) ==
    IF entries = <<>> THEN files
    ELSE
      LET fullPath == Append(dir, Head(entries))
          info == nodeAt(fsys, fullPath)
          rest == Tail(entries)
          skip == skillListEntries(fsys, dir, rest, root, ord, files)
          push == skillListEntries(fsys, dir, rest, root, ord,
                                   Append(files, fullPath))
      IN  IF info.kind = "dir" THEN
              skillListEntries(fsys, dir, rest, root, ord,
                  files \o skillListFilesRecursive(fsys, fullPath, root, ord))
          ELSE IF info.kind = "file" THEN push
          ELSE IF info.kind = "link" THEN
              LET resolved == realpath(fsys, fullPath)
              IN  IF resolved = RealpathError THEN skip
                  ELSE IF ~withinRoot(resolved, root) THEN skip
                  ELSE IF statNode(fsys, fullPath).kind = "file" THEN push
                  ELSE skip
          ELSE skip

\* the files of one skill whose content reaches scanContent: stat says a
\* file of at most 2 MB (the names of the model have no extension)
skillScannedFiles(fsys, skillPath, ord) ==
    LET files == skillListFilesRecursive(fsys, skillPath, skillPath, ord)
        scanned == SelectSeq(files, LAMBDA f :
                      /\ statNode(fsys, f).kind = "file"
                      /\ sizeOf(statNode(fsys, f).content) <= MaxScanSize)
    IN  [i \in 1..Len(scanned) |->
            [path |-> scanned[i], content |-> statNode(fsys, scanned[i]).content]]

----------------------------------------------------------------------------
(* Specification SpecIntegrity: the extensions tree changes under the     *)
(* hands of its owner (or of a hostile extension) and the integrity       *)
(* operations and the skill scan run on it.                               *)

NoResult == [op |-> "none"]

InitialTree ==
    [p \in AllPaths |->
        IF p \in StaticDirs THEN DirNode
        ELSE IF p = OutsideFile THEN FileNode(SecretContent)
        ELSE IF p \in {<<"ext", "a", "f">>, <<"ext", "b", "g">>} THEN FileNode("c1")
        ELSE NoNode]

IntegrityInit ==
    /\ fs = InitialTree
    /\ baseline \in {NoBaselineFile, StaleBaselineFile}
    /\ opResult = NoResult
    /\ changes = 0
    /\ dirty = FALSE
    /\ IdleButIntegrity

\* the environment writes a file of the tree
WriteFile(p, c) ==
    /\ changes < MaxChanges
    /\ fs[p] # FileNode(c)
    /\ fs' = [fs EXCEPT ![p] = FileNode(c)]
    /\ opResult' = NoResult
    /\ changes' = changes + 1
    /\ dirty' = TRUE
    /\ UNCHANGED <<baseline, otherThanIntegrity>>

\* the environment removes a file or a link
RemoveEntry(p) ==
    /\ changes < MaxChanges
    /\ fs[p].kind # "none"
    /\ fs' = [fs EXCEPT ![p] = NoNode]
    /\ opResult' = NoResult
    /\ changes' = changes + 1
    /\ dirty' = TRUE
    /\ UNCHANGED <<baseline, otherThanIntegrity>>

\* the environment creates a symbolic link
MakeLink(p, t) ==
    /\ changes < MaxChanges
    /\ fs[p].kind = "none"
    /\ fs' = [fs EXCEPT ![p] = LinkNode(t)]
    /\ opResult' = NoResult
    /\ changes' = changes + 1
    /\ dirty' = TRUE
    /\ UNCHANGED <<baseline, otherThanIntegrity>>

\* snapshotDirectoryHashes(getExtensionsDir())
Snapshot(ord) ==
    /\ opResult' = [op |-> "snapshot",
                    files |-> snapshotDirectoryHashes(fs, Root, ord)]
    /\ UNCHANGED <<fs, baseline, changes, dirty, otherThanIntegrity>>

\* hashDirectorySha256(getExtensionsDir())
HashDirectory(ord) ==
    /\ opResult' = hashDirectorySha256(fs, Root, ord)
    /\ UNCHANGED <<fs, baseline, changes, dirty, otherThanIntegrity>>

\* the snapshot merged into the files of the stored baseline
WriteExtensionsBaseline_merging(ord) ==
    LET listed == listFilesRecursive(fs, Root, Root, {}, ord).files
        files == snapshotLoop(fs, Root, sortPaths(listed),
                              loadIntegrityBaseline(baseline).files)
    IN  /\ baseline' = [version |-> 1, rootDir |-> Root, files |-> files]
        /\ opResult' = [op |-> "baseline", fileCount |-> Len(files)]
        /\ dirty' = FALSE
        /\ UNCHANGED <<fs, changes, otherThanIntegrity>>

\* writeExtensionsBaseline(): snapshot, then saveIntegrityBaseline
WriteExtensionsBaseline(ord) ==
    LET files == snapshotDirectoryHashes(fs, Root, ord)
    IN  /\ baseline' = [version |-> 1, rootDir |-> Root, files |-> files]
        /\ opResult' = [op |-> "baseline", fileCount |-> Len(files)]
        /\ dirty' = FALSE
        /\ UNCHANGED <<fs, changes, otherThanIntegrity>>

\* detectExtensionsIntegrityDrift()
DetectDrift(ord) ==
    /\ opResult' = detectExtensionsIntegrityDrift(fs, baseline, ord)
    /\ UNCHANGED <<fs, baseline, changes, dirty, otherThanIntegrity>>

\* the file loop of scanInstalledSkills for one skill directory
ScanSkill(skillPath, ord) ==
    /\ opResult' = [op |-> "scan", root |-> skillPath,
                    files |-> skillScannedFiles(fs, skillPath, ord)]
    /\ UNCHANGED <<fs, baseline, changes, dirty, otherThanIntegrity>>

IntegrityNext ==
    \/ \E p \in FileSlots, c \in FileContents : WriteFile(p, c)
    \/ \E p \in FileSlots \cup LinkSlots : RemoveEntry(p)
    \/ \E p \in LinkSlots, t \in LinkTargets : MakeLink(p, t)
    \/ \E ord \in Orders : Snapshot(ord)
    \/ \E ord \in Orders : HashDirectory(ord)
    \/ \E ord \in Orders : WriteExtensionsBaseline(ord)
    \/ \E ord \in Orders : DetectDrift(ord)
    \/ \E skillPath \in {SkillA, SkillB}, ord \in Orders : ScanSkill(skillPath, ord)

SpecIntegrity == IntegrityInit /\ [][IntegrityNext]_vars

----------------------------------------------------------------------------
(* redact.ts.  The text of a file is the sequence of its lines             *)
(* (text.split("\n")), so a text that ends with a newline ends with a      *)
(* blank line and the empty file is one blank line.  A line is blank,      *)
(* malformed, the JSON text null, or the JSON text of an entry; `spaced`   *)
(* says that the line carries white space that line.trim() or              *)
(* JSON.stringify(JSON.parse(line)) does not reproduce.  Entries carry     *)
(* their content as a string.                                              *)

redactString(original) ==
    IF Len(original) <= 4
    THEN repeatStar(Len(original))
    ELSE SubSeq(original, 1, 2) \o repeatStar(Len(original) - 4)
            \o SubSeq(original, Len(original) - 1, Len(original))

EntryValue(type, role, text) == [type |-> type, role |-> role, content |-> text]
NoValue == EntryValue("", "", <<>>)
BlankLine == [kind |-> "blank", spaced |-> FALSE, value |-> NoValue]
NullLine == [kind |-> "null", spaced |-> FALSE, value |-> NoValue]
MalformedLine(spaced, raw) ==
    [kind |-> "malformed", spaced |-> spaced, value |-> EntryValue("", "", raw)]
JsonLine(spaced, type, role, text) ==
    [kind |-> "json", spaced |-> spaced, value |-> EntryValue(type, role, text)]

\* the JSON text of an object that has a key "__raw" of its own: raw is
\* the string under that key, type the value of its key "type"
MarkedLine(spaced, type, raw) ==
    [kind |-> "marked", spaced |-> spaced, value |-> EntryValue(type, "", raw)]

\* one iteration of the for loop of parseJsonl on a line that is not blank
parseLine(line) ==
    CASE line.kind = "malformed" -> [kind |-> "raw", value |-> line.value]
      [] line.kind = "null" -> [kind |-> "null", value |-> NoValue]
      [] line.kind = "marked" -> [kind |-> "marked", value |-> line.value]
      [] OTHER -> [kind |-> "entry", value |-> line.value]

parseJsonl(text) ==
    LET kept == SelectSeq(text, LAMBDA l : l.kind # "blank")
    IN  [i \in 1..Len(kept) |-> parseLine(kept[i])]

\* the callback of entries.map in serializeJsonl: an entry with a key
\* "__raw" gives the string under that key, any other entry its JSON text
serializeEntry(entry) ==
    IF entry.kind \in {"raw", "marked"}
    THEN [kind |-> "malformed", spaced |-> FALSE,
          value |-> EntryValue("", "", entry.value.content)]
    ELSE [kind |-> "json", spaced |-> FALSE, value |-> entry.value]

\* entries.map(...).join("\n") + "\n"
serializeJsonl(entries) ==
    (IF entries = <<>> THEN <<BlankLine>>
     ELSE [i \in 1..Len(entries) |-> serializeEntry(entries[i])])
        \o <<BlankLine>>

Undefined == <<"undefined">>

\* /\b(?:\d[ -]*?){13,19}\b/g
CreditCardRedactionPattern ==
    << WordBoundary, LazyGroups(Digits, {" ", "-"}, 13, 19), WordBoundary >>

\* REDACTION_PATTERNS[ruleId] for the rule ids of the model's violations;
\* "content-custom" stands for a rule id that has no entry in the table
REDACTION_PATTERNS(ruleId) ==
    CASE ruleId = "pii-phone" -> <<PhonePattern>>
      [] ruleId = "pii-ssn" -> <<SsnPattern>>
      [] ruleId = "pii-credit-card" -> <<CreditCardRedactionPattern>>
      [] ruleId = "content-custom" -> Undefined

RECURSIVE replaceMatches(_, _, _, _)
\* result.replace(re, (match) => redactString(match)) for a global re;
\* from is the offset of the first character not copied yet
replaceMatches(text, matches, k, from) ==
    IF k > Len(matches) THEN SubSeq(text, from + 1, Len(text))
    ELSE SubSeq(text, from + 1, matches[k].index)
            \o redactString(matches[k].text)
            \o replaceMatches(text, matches, k + 1,
                              matches[k].index + Len(matches[k].text))

RECURSIVE redactWith(_, _, _)
\* the for loop of redactContent
redactWith(patterns, k, result) ==
    IF k > Len(patterns) THEN result
    ELSE redactWith(patterns, k + 1,
            replaceMatches(result, execAll(patterns[k], result, 0), 1, 0))

redactContent(text, ruleId) ==
    LET patterns == REDACTION_PATTERNS(ruleId)
    IN  IF patterns = Undefined THEN text ELSE redactWith(patterns, 1, text)

\* indexes in entries of the elements of assistantMessages, in order
assistantMessages(entries) ==
    SelectSeq([i \in 1..Len(entries) |-> i],
              LAMBDA i : /\ entries[i].kind = "entry"
                         /\ entries[i].value.type = "message"
                         /\ entries[i].value.role = "assistant")

RECURSIVE redactViolations(_, _, _, _)
\* for (const violation of violations) { ... } in applyRedactions
redactViolations(entries, fileViolations, k, redactedCount) ==
    IF k > Len(fileViolations)
    THEN [entries |-> entries, redactedCount |-> redactedCount]
    ELSE LET msgs == assistantMessages(entries)
             n == fileViolations[k].messageIndex + 1
         IN  IF n > Len(msgs)
             THEN redactViolations(entries, fileViolations, k + 1, redactedCount)
             ELSE LET i == msgs[n]
                      text == entries[i].value.content
                      redacted == redactContent(text, fileViolations[k].ruleId)
                  IN  IF redacted # text
                      THEN redactViolations(
                              [entries EXCEPT ![i].value.content = redacted],
                              fileViolations, k + 1, redactedCount + 1)
                      ELSE redactViolations(entries, fileViolations, k + 1,
                                            redactedCount)

\* position of file among the keys of byFile, 0 when it is not a key
keyIndex(byFile, file) ==
    IF \E i \in 1..Len(byFile) : byFile[i].file = file
    THEN CHOOSE i \in 1..Len(byFile) : byFile[i].file = file
    ELSE 0

RECURSIVE groupByFile(_, _, _)
\* the first loop of applyRedactions; a Map keeps its keys in insertion order
groupByFile(decisions, k, byFile) ==
    IF k > Len(decisions) THEN byFile
    ELSE IF decisions[k].action # "redact"
         THEN groupByFile(decisions, k + 1, byFile)
         ELSE LET v == decisions[k].violation
                  i == keyIndex(byFile, v.sessionFile)
              IN  groupByFile(decisions, k + 1,
                    IF i = 0
                    THEN Append(byFile,
                            [file |-> v.sessionFile, violations |-> <<v>>])
                    ELSE [byFile EXCEPT ![i].violations = Append(@, v)])

\* a path of the session directories; stamp >= 0 makes it the path
\* join(dir, `.${base}.backup-${stamp}`)
SessionPath(dir, base) == [dir |-> dir, base |-> base, stamp |-> -1]
backupPathOf(filePath, stamp) ==
    [dir |-> filePath.dir, base |-> filePath.base, stamp |-> stamp]
NoPath == [dir |-> "", base |-> "", stamp |-> -1]

Absent == <<>>

\* copyFile that creates nothing
copyFile_nothing(files, src, dest) == files

copyFile(files, src, dest) == [files EXCEPT ![dest] = files[src]]

----------------------------------------------------------------------------
(* Specification SpecRedact: applyRedactions on two session files, one     *)
(* file system call per step, every call succeeding or throwing.           *)

SsnText == <<"1", "2", "3", "-", "4", "5", "-", "6", "7", "8", "9">>
PhoneText == <<"a", " ", "5", "5", "5", "1", "2", "3", "4">>
PlainText == <<"o", "k">>


\* session logs: a header, messages of the assistant and of the user, a
\* malformed line, and one log with a line that is the JSON text null
Logs ==
    { << JsonLine(FALSE, "session", "none", <<>>),
         JsonLine(TRUE, "message", "assistant", SsnText),
         JsonLine(FALSE, "message", "user", SsnText),
         BlankLine >>,
      << JsonLine(FALSE, "message", "assistant", PhoneText),
         MalformedLine(TRUE, <<"{">>),
         JsonLine(FALSE, "message", "assistant", PlainText),
         BlankLine >>,
      << NullLine,
         JsonLine(FALSE, "message", "assistant", SsnText),
         BlankLine >> }

FileA == SessionPath("agentA", "s.jsonl")
FileB == SessionPath("agentB", "s.jsonl")

SessionViolation(sessionFile, messageIndex, ruleId) ==
    [sessionFile |-> sessionFile, messageIndex |-> messageIndex, ruleId |-> ruleId]
Decision(violation, action) == [violation |-> violation, action |-> action]

\* Map<SessionViolation, ReviewAction>, in insertion order
Decisions ==
    { << Decision(SessionViolation(FileA, 0, "pii-ssn"), "redact") >>,
      << Decision(SessionViolation(FileB, 0, "pii-phone"), "redact"),
         Decision(SessionViolation(FileA, 0, "pii-phone"), "redact") >>,
      << Decision(SessionViolation(FileA, 1, "content-custom"), "redact"),
         Decision(SessionViolation(FileB, 0, "pii-ssn"), "skip"),
         Decision(SessionViolation(FileA, 0, "pii-ssn"), "redact"),
         Decision(SessionViolation(FileB, 2, "pii-ssn"), "redact") >>,
      << Decision(SessionViolation(FileB, 0, "pii-ssn"), "skip") >> }

SessionFiles == {FileA, FileB}
\* the instants Date.now() goes through
Stamps == {0, 1}
SessionPaths ==
    SessionFiles \cup {backupPathOf(f, t) : f \in SessionFiles, t \in Stamps}

RedactInit ==
    /\ sfs \in { [p \in SessionPaths |->
                    IF p \in SessionFiles THEN texts[p] ELSE Absent] :
                 texts \in [SessionFiles -> Logs \cup {Absent}] }
    /\ now = 0
    /\ rdPending = <<>>
    /\ rdPc = "idle"
    /\ rdLocal = <<>>
    /\ rdResults = <<>>
    /\ rdBefore = <<>>
    /\ rdIo = <<>>
    /\ rdCalls = 0
    /\ rdDecisions = <<>>
    /\ IdleButRedact

\* Date.now() moves on
ClockTick ==
    /\ now + 1 \in Stamps
    /\ now' = now + 1
    /\ UNCHANGED <<sfs, rdPending, rdPc, rdLocal, rdResults, rdBefore, rdIo,
                   rdCalls, rdDecisions,
                   otherThanRedact>>

\* the call and the grouping of the violations by file
ApplyRedactions(decisions) ==
    /\ rdPc \in {"idle", "returned"}
    /\ rdCalls < MaxCalls
    /\ rdCalls' = rdCalls + 1
    /\ rdDecisions' = decisions
    /\ rdPending' = groupByFile(decisions, 1, <<>>)
    /\ rdPc' = IF rdPending' = <<>> THEN "returned" ELSE "copy"
    /\ rdLocal' = <<>>
    /\ rdResults' = <<>>
    /\ rdBefore' = [f \in SessionFiles |-> sfs[f]]
    /\ rdIo' = <<>>
    /\ UNCHANGED <<sfs, now, otherThanRedact>>

\* the end of an iteration of the for loop over byFile
nextFile(result) ==
    /\ rdResults' = Append(rdResults, result)
    /\ rdPending' = Tail(rdPending)
    /\ rdPc' = IF Tail(rdPending) = <<>> THEN "returned" ELSE "copy"
    /\ rdLocal' = <<>>

\* a catch block that gives up on the files still to come
failed_abortsBatch(filePath) ==
    /\ rdResults' = Append(rdResults,
            [file |-> filePath, messagesRedacted |-> 0, backupPath |-> NoPath,
             success |-> FALSE, error |-> "message"])
    /\ rdPending' = <<>>
    /\ rdPc' = "returned"
    /\ rdLocal' = <<>>

\* the catch block
failed(filePath) ==
    nextFile([file |-> filePath, messagesRedacted |-> 0, backupPath |-> NoPath,
              success |-> FALSE, error |-> "message"])

\* const backupPath = ...; await copyFile(filePath, backupPath)
RedactCopyFile ==
    /\ rdPc = "copy"
    /\ LET filePath == Head(rdPending).file
           backupPath == backupPathOf(filePath, now)
       IN  /\ sfs[filePath] # Absent
           /\ sfs' = copyFile(sfs, filePath, backupPath)
           /\ rdLocal' = [backupPath |-> backupPath]
           /\ rdIo' = Append(rdIo, [op |-> "copy", file |-> filePath])
    /\ rdPc' = "read"
    /\ UNCHANGED <<now, rdPending, rdResults, rdBefore, rdCalls, rdDecisions,
                   otherThanRedact>>

\* copyFile throws: the file is missing, or the copy is refused
RedactCopyFails ==
    /\ rdPc = "copy"
    /\ failed(Head(rdPending).file)
    /\ UNCHANGED <<sfs, now, rdBefore, rdIo, rdCalls, rdDecisions,
                   otherThanRedact>>

\* readFile, parseJsonl, the redaction of the entries and serializeJsonl
RedactReadFile ==
    /\ rdPc = "read"
    /\ LET entries == parseJsonl(sfs[Head(rdPending).file])
           done == redactViolations(entries, Head(rdPending).violations, 1, 0)
       IN  /\ \A i \in 1..Len(entries) : entries[i].kind # "null"
           /\ rdLocal' = [backupPath |-> rdLocal.backupPath,
                          newText |-> serializeJsonl(done.entries),
                          redactedCount |-> done.redactedCount]
    /\ rdPc' = "write"
    /\ UNCHANGED <<sfs, now, rdPending, rdResults, rdBefore, rdIo, rdCalls,
                   rdDecisions, otherThanRedact>>

\* readFile throws, or entries.filter throws on an entry that is null
RedactReadFails ==
    /\ rdPc = "read"
    /\ failed(Head(rdPending).file)
    /\ UNCHANGED <<sfs, now, rdBefore, rdIo, rdCalls, rdDecisions,
                   otherThanRedact>>

\* await writeFile(filePath, newText); results.push({... success: true})
RedactWriteFile ==
    /\ rdPc = "write"
    /\ LET filePath == Head(rdPending).file
       IN  /\ sfs' = [sfs EXCEPT ![filePath] = rdLocal.newText]
           /\ rdIo' = Append(rdIo, [op |-> "write", file |-> filePath])
           /\ nextFile([file |-> filePath,
                        messagesRedacted |-> rdLocal.redactedCount,
                        backupPath |-> rdLocal.backupPath, success |-> TRUE,
                        error |-> "undefined"])
    /\ UNCHANGED <<now, rdBefore, rdCalls, rdDecisions,
                   otherThanRedact>>

\* writeFile throws, before it opened the file or after it truncated it
RedactWriteFails ==
    /\ rdPc = "write"
    /\ LET filePath == Head(rdPending).file
       IN  /\ \/ UNCHANGED <<sfs, rdIo>>
              \/ /\ sfs' = [sfs EXCEPT ![filePath] = <<BlankLine>>]
                 /\ rdIo' = Append(rdIo, [op |-> "write", file |-> filePath])
           /\ failed(filePath)
    /\ UNCHANGED <<now, rdBefore, rdCalls, rdDecisions,
                   otherThanRedact>>

RedactNext ==
    \/ ClockTick
    \/ \E decisions \in Decisions : ApplyRedactions(decisions)
    \/ RedactCopyFile
    \/ RedactCopyFails
    \/ RedactReadFile
    \/ RedactReadFails
    \/ RedactWriteFile
    \/ RedactWriteFails

SpecRedact == RedactInit /\ [][RedactNext]_vars

----------------------------------------------------------------------------
(* quarantine.ts.  A skill is a directory; the model keeps of it the tree  *)
(* it holds, "empty" for a directory without entries, Vacant where there   *)
(* is nothing.  randomUUID() hands out identifiers that differ in their    *)
(* first eight characters, and all timestamps fall on one day.             *)

Vacant == "vacant"
Trees == {"empty", "tree1", "tree2"}
SkillNames == {"skill-a", "skill-b"}
Today == "2026-01-01"
Uuids == [n \in 1..MaxQuarantineOps |-> <<"uuid", n>>]

\* resolveSkillInstallPath(skillName)
resolveSkillInstallPath(skillName) == <<"extensions", skillName>>
basename(path) == path[Len(path)]
\* the destination named without the identifier
destinationOf_noId(skillName, id) == <<"quarantine", Today, skillName, Uuids[1]>>

\* join(quarantineDir(), `${timestamp.slice(0, 10)}-${skillName}-${id.slice(0, 8)}`)
destinationOf(skillName, id) == <<"quarantine", Today, skillName, id>>

QuarantinePaths ==
    {resolveSkillInstallPath(n) : n \in SkillNames}
        \cup {destinationOf(n, Uuids[i]) : n \in SkillNames, i \in 1..MaxQuarantineOps}

\* quarantine-records.json is absent
NoLedgerFile == [version |-> 0, records |-> <<>>]

\* loadDb that forgets the records already restored
loadDb_dropsRestored(file) ==
    IF file.version # 1 THEN [version |-> 1, records |-> <<>>]
    ELSE [file EXCEPT !.records =
             SelectSeq(@, LAMBDA r : r.restoredAt = 0)]

loadDb(file) ==
    IF file.version # 1 THEN [version |-> 1, records |-> <<>>] ELSE file

\* rename(2) of a directory: the source must exist, the destination must be
\* vacant or an empty directory
renameThrows(files, src, dest) ==
    files[src] = Vacant \/ files[dest] \notin {Vacant, "empty"}

\* rename that leaves the source in place
rename_copies(files, src, dest) == [files EXCEPT ![dest] = files[src]]

rename(files, src, dest) ==
    [files EXCEPT ![dest] = files[src], ![src] = Vacant]

\* the rule ids of the malware and content rules, in localeCompare order
RuleIdOrder == <<"content-custom", "malware-staged-delivery">>

\* [...new Set(detectedRuleIds)].sort((a, b) => a.localeCompare(b))
sortedRuleIds(detectedRuleIds) ==
    SelectSeq(RuleIdOrder, LAMBDA r : r \in SeqRange(detectedRuleIds))

NotRestored == 0

\* the record quarantineSkill builds
QuarantineRecord(skillPath, id, detectedRuleIds, reason, timestamp) ==
    [id |-> id, skillName |-> basename(skillPath), originalPath |-> skillPath,
     quarantinedPath |-> destinationOf(basename(skillPath), id),
     detectedRuleIds |-> sortedRuleIds(detectedRuleIds), reason |-> reason,
     timestamp |-> timestamp, restoredAt |-> NotRestored]

\* the last active match instead of the first
findActive_last(db, identifier) ==
    LET hits == { i \in 1..Len(db.records) :
                    /\ db.records[i].restoredAt = NotRestored
                    /\ \/ db.records[i].id = identifier
                       \/ <<db.records[i].skillName>> = identifier }
    IN  IF hits = {} THEN 0 ELSE CHOOSE i \in hits : \A j \in hits : i >= j

\* index in db.records of
\* db.records.filter((r) => !r.restoredAt).find((r) => r.id === identifier
\* || r.skillName === identifier), 0 when there is none
findActive(db, identifier) ==
    LET hits == { i \in 1..Len(db.records) :
                    /\ db.records[i].restoredAt = NotRestored
                    /\ \/ db.records[i].id = identifier
                       \/ <<db.records[i].skillName>> = identifier }
    IN  IF hits = {} THEN 0 ELSE CHOOSE i \in hits : \A j \in hits : i <= j

\* listQuarantineRecords(includeRestored)
listQuarantineRecords(file, includeRestored) ==
    SelectSeq(loadDb(file).records,
              LAMBDA r : includeRestored \/ r.restoredAt = NotRestored)

----------------------------------------------------------------------------
(* Specification SpecQuarantine: skills are installed, quarantined and     *)
(* restored, one call after the other; a call returns or throws.           *)

NoRecord == QuarantineRecord(<<"">>, <<"uuid", 0>>, <<>>, "", 0)
Returned(op, outcome, record) == [op |-> op, outcome |-> outcome, record |-> record]

DetectedRuleIds ==
    { <<"malware-staged-delivery">>,
      <<"malware-staged-delivery", "content-custom", "malware-staged-delivery">> }

\* what restore is asked for: a record id or a skill name
Identifiers == SeqRange(Uuids) \cup {<<n>> : n \in SkillNames}

QuarantineInit ==
    /\ qfs \in { [p \in QuarantinePaths |->
                    IF Len(p) = 2 THEN trees[p] ELSE Vacant] :
                 trees \in [{resolveSkillInstallPath(n) : n \in SkillNames}
                               -> {"tree1", "empty"}] }
    /\ ledger = NoLedgerFile
    /\ qIds = 0
    /\ qClock = 1
    /\ qRet = Returned("none", "none", NoRecord)
    /\ qTaken = [i \in 1..MaxQuarantineOps |-> Vacant]
    /\ IdleButQuarantine

\* a skill is installed where there is none
InstallSkill(skillName, tree) ==
    /\ qClock <= MaxQuarantineOps
    /\ qfs[resolveSkillInstallPath(skillName)] = Vacant
    /\ qfs' = [qfs EXCEPT ![resolveSkillInstallPath(skillName)] = tree]
    /\ qClock' = qClock + 1
    /\ UNCHANGED <<ledger, qIds, qRet, qTaken, otherThanQuarantine>>

\* quarantineSkill: rename(skillPath, destination) throws
QuarantineRenameThrows(skillPath, detectedRuleIds) ==
    /\ qClock <= MaxQuarantineOps
    /\ LET record == QuarantineRecord(skillPath, Uuids[qIds + 1],
                                      detectedRuleIds, "scan", qClock)
       IN  /\ renameThrows(qfs, skillPath, record.quarantinedPath)
           /\ qRet' = Returned("quarantine", "threw", NoRecord)
    /\ qIds' = qIds + 1
    /\ qClock' = qClock + 1
    /\ UNCHANGED <<qfs, ledger, qTaken, otherThanQuarantine>>

\* quarantineSkill: the item is moved, then saveDb(db) throws
QuarantineSaveThrows(skillPath, detectedRuleIds) ==
    /\ qClock <= MaxQuarantineOps
    /\ LET record == QuarantineRecord(skillPath, Uuids[qIds + 1],
                                      detectedRuleIds, "scan", qClock)
       IN  /\ ~renameThrows(qfs, skillPath, record.quarantinedPath)
           /\ qfs' = rename(qfs, skillPath, record.quarantinedPath)
           /\ qRet' = Returned("quarantine", "threw", NoRecord)
    /\ qIds' = qIds + 1
    /\ qClock' = qClock + 1
    /\ UNCHANGED <<ledger, qTaken, otherThanQuarantine>>

\* quarantineSkill returns the record
QuarantineSkill(skillPath, detectedRuleIds) ==
    /\ qClock <= MaxQuarantineOps
    /\ LET db == loadDb(ledger)
           record == QuarantineRecord(skillPath, Uuids[qIds + 1],
                                      detectedRuleIds, "scan", qClock)
       IN  /\ ~renameThrows(qfs, skillPath, record.quarantinedPath)
           /\ qfs' = rename(qfs, skillPath, record.quarantinedPath)
           /\ ledger' = [db EXCEPT !.records = Append(@, record)]
           /\ qRet' = Returned("quarantine", "returned", record)
           /\ qTaken' = [qTaken EXCEPT ![qIds + 1] = qfs[skillPath]]
    /\ qIds' = qIds + 1
    /\ qClock' = qClock + 1
    /\ UNCHANGED otherThanQuarantine

\* restoreQuarantinedSkill: no active record matches
RestoreNotFound(identifier) ==
    /\ qClock <= MaxQuarantineOps
    /\ findActive(loadDb(ledger), identifier) = 0
    /\ qRet' = Returned("restore", "not restored", NoRecord)
    /\ qClock' = qClock + 1
    /\ UNCHANGED <<qfs, ledger, qIds, qTaken, otherThanQuarantine>>

\* restoreQuarantinedSkill: rename(quarantinedPath, originalPath) throws
RestoreRenameThrows(identifier) ==
    /\ qClock <= MaxQuarantineOps
    /\ LET db == loadDb(ledger)
           i == findActive(db, identifier)
       IN  /\ i # 0
           /\ renameThrows(qfs, db.records[i].quarantinedPath,
                           db.records[i].originalPath)
    /\ qRet' = Returned("restore", "threw", NoRecord)
    /\ qClock' = qClock + 1
    /\ UNCHANGED <<qfs, ledger, qIds, qTaken, otherThanQuarantine>>

\* restoreQuarantinedSkill: the item is moved back, then saveDb(db) throws
RestoreSaveThrows(identifier) ==
    /\ qClock <= MaxQuarantineOps
    /\ LET db == loadDb(ledger)
           i == findActive(db, identifier)
       IN  /\ i # 0
           /\ ~renameThrows(qfs, db.records[i].quarantinedPath,
                            db.records[i].originalPath)
           /\ qfs' = rename(qfs, db.records[i].quarantinedPath,
                            db.records[i].originalPath)
    /\ qRet' = Returned("restore", "threw", NoRecord)
    /\ qClock' = qClock + 1
    /\ UNCHANGED <<ledger, qIds, qTaken, otherThanQuarantine>>

\* restoreQuarantinedSkill returns { restored: true, record }
RestoreQuarantinedSkill(identifier) ==
    /\ qClock <= MaxQuarantineOps
    /\ LET db == loadDb(ledger)
           i == findActive(db, identifier)
       IN  /\ i # 0
           /\ ~renameThrows(qfs, db.records[i].quarantinedPath,
                            db.records[i].originalPath)
           /\ qfs' = rename(qfs, db.records[i].quarantinedPath,
                            db.records[i].originalPath)
           /\ ledger' = [db EXCEPT !.records[i].restoredAt = qClock]
           /\ qRet' = [op |-> "restore", outcome |-> "restored",
                       record |-> ledger'.records[i],
                       identifier |-> identifier]
    /\ qClock' = qClock + 1
    /\ UNCHANGED <<qIds, qTaken, otherThanQuarantine>>

\* listQuarantineRecords(includeRestored) returns
ListQuarantineRecords(includeRestored) ==
    /\ qRet' = [op |-> "list", outcome |-> "returned", record |-> NoRecord,
                includeRestored |-> includeRestored,
                records |-> listQuarantineRecords(ledger, includeRestored)]
    /\ UNCHANGED <<qfs, ledger, qIds, qClock, qTaken, otherThanQuarantine>>

QuarantineNext ==
    \/ \E n \in SkillNames, t \in Trees : InstallSkill(n, t)
    \/ \E n \in SkillNames, ids \in DetectedRuleIds :
          \/ QuarantineRenameThrows(resolveSkillInstallPath(n), ids)
          \/ QuarantineSaveThrows(resolveSkillInstallPath(n), ids)
          \/ QuarantineSkill(resolveSkillInstallPath(n), ids)
    \/ \E identifier \in Identifiers :
          \/ RestoreNotFound(identifier)
          \/ RestoreRenameThrows(identifier)
          \/ RestoreSaveThrows(identifier)
          \/ RestoreQuarantinedSkill(identifier)
    \/ \E includeRestored \in BOOLEAN : ListQuarantineRecords(includeRestored)

SpecQuarantine == QuarantineInit /\ [][QuarantineNext]_vars

----------------------------------------------------------------------------
(* saveDb (quarantine.ts), saveIntegrityBaseline (integrity.ts) and        *)
(* saveLedger (approval-ledger.ts): mkdir, writeFile(temp, text),          *)
(* rename(temp, path).  A text is the sequence of the pieces writeFile     *)
(* hands to the file one after the other; a file that holds only some of   *)
(* them is partially written.  The process may stop after any step.        *)

\* recordsPath(), baselinePath(), ledgerPath()
PersistedPaths ==
    {<<"quarantine-records.json">>, <<"integrity-baseline.json">>,
     <<"approval-ledger.json">>}

\* a save that writes straight to the final path
tempOf_samePath(path) == path

\* const temp = `${path}.tmp`
tempOf(path) == path \o <<".tmp">>

\* the structures that are saved, and JSON.stringify(data, null, 2)
Structures == {"structure-1", "structure-2"}
stringify(data) == <<"{", data, "}">>

NoFile == <<"ENOENT">>
NotSaving == [pc |-> "idle", path |-> <<>>, data |-> ""]

----------------------------------------------------------------------------
(* Specification SpecPersist: structures are saved one save after the      *)
(* other; a save may be cut short by the stop of its process.              *)

PersistInit ==
    /\ pfs \in [PersistedPaths \cup {tempOf(p) : p \in PersistedPaths}
                   -> {NoFile}]
    /\ saver = NotSaving
    /\ savePrev = NoFile
    /\ saves = 0
    /\ IdleButPersist

\* the call, and mkdir(dirname(path), { recursive: true })
SaveBegin(path, data) ==
    /\ saver.pc \in {"idle", "stopped"}
    /\ saves < MaxSaves
    /\ saves' = saves + 1
    /\ saver' = [pc |-> "open", path |-> path, data |-> data]
    /\ savePrev' = pfs[path]
    /\ UNCHANGED <<pfs, otherThanPersist>>

\* writeFile(temp, ...) opens temp and truncates it
SaveOpenTemp ==
    /\ saver.pc = "open"
    /\ pfs' = [pfs EXCEPT ![tempOf(saver.path)] = <<>>]
    /\ saver' = [saver EXCEPT !.pc = "write"]
    /\ UNCHANGED <<savePrev, saves, otherThanPersist>>

\* writeFile(temp, ...) writes the next piece of the text
SaveWritePiece ==
    /\ saver.pc = "write"
    /\ LET temp == tempOf(saver.path)
           text == stringify(saver.data)
       IN  /\ pfs' = [pfs EXCEPT ![temp] = Append(@, text[Len(@) + 1])]
           /\ saver' = [saver EXCEPT !.pc =
                           IF Len(pfs[temp]) + 1 = Len(text)
                           THEN "rename" ELSE "write"]
    /\ UNCHANGED <<savePrev, saves, otherThanPersist>>

\* rename(temp, path), and the return
SaveRename ==
    /\ saver.pc = "rename"
    /\ LET temp == tempOf(saver.path)
       IN  pfs' = IF temp = saver.path THEN pfs
                  ELSE [pfs EXCEPT ![saver.path] = pfs[temp], ![temp] = NoFile]
    /\ saver' = [saver EXCEPT !.pc = "idle"]
    /\ UNCHANGED <<savePrev, saves, otherThanPersist>>

\* the process stops in the middle of a save
SaveStops ==
    /\ saver.pc \in {"open", "write", "rename"}
    /\ saver' = [saver EXCEPT !.pc = "stopped"]
    /\ UNCHANGED <<pfs, savePrev, saves, otherThanPersist>>

PersistNext ==
    \/ \E path \in PersistedPaths, data \in Structures : SaveBegin(path, data)
    \/ SaveOpenTemp
    \/ SaveWritePiece
    \/ SaveRename
    \/ SaveStops

SpecPersist == PersistInit /\ [][PersistNext]_vars

----------------------------------------------------------------------------
(* install-safe: acquire, pre-scan, install disabled, post-scan, enable *)

\* what mcp-scan wrote to its standard output
Stdouts == {"", "[]", "[{}]", "{findings:[{}]}", "[1]", "text"}

\* parseFindings: the number of findings it returns
parseFindings(stdout) ==
    IF stdout = "[{}]" \/ stdout = "{findings:[{}]}" THEN 1 ELSE 0

\* ExternalCommandResult of runExternalCommand
CommandResults ==
    {[ok |-> FALSE, notFound |-> TRUE, timedOut |-> FALSE, stdout |-> ""],
     [ok |-> FALSE, notFound |-> FALSE, timedOut |-> TRUE, stdout |-> ""]}
    \cup {[ok |-> ok, notFound |-> FALSE, timedOut |-> FALSE, stdout |-> out] :
            ok \in BOOLEAN, out \in Stdouts}

NoScan ==
    [available |-> FALSE, timedOut |-> FALSE, clean |-> FALSE, findings |-> 0,
     summary |-> ""]

\* runMcpScan, given what the two runs of the scanner come to
runMcpScan(primary, fallback) ==
    LET result == IF ~primary.ok /\ ~primary.notFound THEN fallback
                  ELSE primary
        findings == parseFindings(result.stdout)
        clean == result.ok /\ findings = 0
    IN  IF result.notFound
        THEN [available |-> FALSE, timedOut |-> FALSE, clean |-> FALSE,
              findings |-> 0, summary |-> "mcp-scan not available in PATH"]
        ELSE IF result.timedOut
        THEN [available |-> TRUE, timedOut |-> TRUE, clean |-> FALSE,
              findings |-> 0, summary |-> "mcp-scan timed out after 30s"]
        ELSE [available |-> TRUE, timedOut |-> FALSE, clean |-> clean,
              findings |-> findings,
              summary |-> IF clean THEN "No scanner findings"
                          ELSE "Scanner reported findings"]

canEnable_preScanOnly(opts, pre, post) ==
    opts.enable /\ pre.available /\ pre.clean

canEnable(opts, pre, post) ==
    opts.enable /\ pre.available /\ post.available /\ pre.clean /\ post.clean

----------------------------------------------------------------------------
(* Specification SpecInstall: runs of install-safe, one after the other *)

InstallInit ==
    /\ isPc = "idle"
    /\ options = [enable |-> FALSE]
    /\ preScan = NoScan
    /\ postScan = NoScan
    /\ marker = "none"
    /\ enableCalled = FALSE
    /\ approvals = <<>>
    /\ installs = 0
    /\ IdleButInstall

RunInstallSafe(enable) ==
    /\ isPc = "idle"
    /\ installs < MaxInstalls
    /\ isPc' = "acquire"
    /\ options' = [enable |-> enable]
    /\ preScan' = NoScan
    /\ postScan' = NoScan
    /\ enableCalled' = FALSE
    /\ installs' = installs + 1
    /\ UNCHANGED <<marker, approvals, otherThanInstall>>

\* acquireSource returns
AcquireSource ==
    /\ isPc = "acquire"
    /\ isPc' = "preScan"
    /\ UNCHANGED <<options, preScan, postScan, marker, enableCalled,
                   approvals, installs, otherThanInstall>>

\* acquireSource throws
AcquireThrows ==
    /\ isPc = "acquire"
    /\ isPc' = "threw"
    /\ UNCHANGED <<options, preScan, postScan, marker, enableCalled,
                   approvals, installs, otherThanInstall>>

PreScan(primary, fallback) ==
    /\ isPc = "preScan"
    /\ preScan' = runMcpScan(primary, fallback)
    /\ isPc' = "install"
    /\ UNCHANGED <<options, postScan, marker, enableCalled, approvals,
                   installs, otherThanInstall>>

\* installExtensionDisabled or the local copy, then markDisabled
InstallDisabled ==
    /\ isPc = "install"
    /\ marker' = "present"
    /\ isPc' = "postScan"
    /\ UNCHANGED <<options, preScan, postScan, enableCalled, approvals,
                   installs, otherThanInstall>>

\* the install command succeeded and the installed path was not found
InstallThrows ==
    /\ isPc = "install"
    /\ marker = "none"
    /\ isPc' = "threw"
    /\ UNCHANGED <<options, preScan, postScan, marker, enableCalled,
                   approvals, installs, otherThanInstall>>

PostScan(primary, fallback) ==
    /\ isPc = "postScan"
    /\ postScan' = runMcpScan(primary, fallback)
    /\ isPc' = "record"
    /\ UNCHANGED <<options, preScan, marker, enableCalled, approvals,
                   installs, otherThanInstall>>

\* hashDirectorySha256, recordScanEvent, appendApprovalLedgerEntry
AppendApprovalLedgerEntry ==
    /\ isPc = "record"
    /\ approvals' = Append(approvals,
           [preScan |-> [available |-> preScan.available,
                         clean |-> preScan.clean],
            postScan |-> [available |-> postScan.available,
                          clean |-> postScan.clean],
            approved |-> canEnable(options, preScan, postScan)])
    /\ isPc' = "gate"
    /\ UNCHANGED <<options, preScan, postScan, marker, enableCalled,
                   installs, otherThanInstall>>

\* one of the three throws
RecordThrows ==
    /\ isPc = "record"
    /\ isPc' = "threw"
    /\ UNCHANGED <<options, preScan, postScan, marker, enableCalled,
                   approvals, installs, otherThanInstall>>

\* if (canEnable): enableExtension, then clearDisabledMarker whether the
\* enable command succeeded or not
EnableExtension ==
    /\ isPc = "gate"
    /\ canEnable(options, preScan, postScan)
    /\ enableCalled' = TRUE
    /\ marker' = "cleared"
    /\ isPc' = "done"
    /\ UNCHANGED <<options, preScan, postScan, approvals, installs,
                   otherThanInstall>>

\* else: the skill remains disabled
RemainsDisabled ==
    /\ isPc = "gate"
    /\ ~canEnable(options, preScan, postScan)
    /\ isPc' = "done"
    /\ UNCHANGED <<options, preScan, postScan, marker, enableCalled,
                   approvals, installs, otherThanInstall>>

\* the finally block, and the promise settles
InstallSafeSettles ==
    /\ isPc \in {"done", "threw"}
    /\ isPc' = "idle"
    /\ UNCHANGED <<options, preScan, postScan, marker, enableCalled,
                   approvals, installs, otherThanInstall>>

InstallNext ==
    \/ \E enable \in BOOLEAN : RunInstallSafe(enable)
    \/ AcquireSource
    \/ AcquireThrows
    \/ \E primary \in CommandResults, fallback \in CommandResults :
           PreScan(primary, fallback)
    \/ InstallDisabled
    \/ InstallThrows
    \/ \E primary \in CommandResults, fallback \in CommandResults :
           PostScan(primary, fallback)
    \/ AppendApprovalLedgerEntry
    \/ RecordThrows
    \/ EnableExtension
    \/ RemainsDisabled
    \/ InstallSafeSettles

SpecInstall == InstallInit /\ [][InstallNext]_vars

----------------------------------------------------------------------------
(* catch: audit, skill scan, integrity drift, forensic scan, guard install *)

CatchOptions ==
    [scanOnly : BOOLEAN, guardOnly : BOOLEAN, auditOnly : BOOLEAN,
     fix : BOOLEAN, interactive : BOOLEAN, uninstall : BOOLEAN]

\* the condition of "Phase 1: Config Security Audit"
auditPhase(o) == ~o.scanOnly

\* the condition of the skill scan and integrity drift phases
fullFlowPhase(o) == ~o.scanOnly /\ ~o.guardOnly /\ ~o.auditOnly

\* the condition of "Phase 4: Forensic scan"
forensicPhase(o) == ~o.guardOnly /\ ~o.auditOnly

\* the condition of "Phase 5: Guard install"
guardPhase(o) == ~o.scanOnly /\ ~o.auditOnly

----------------------------------------------------------------------------
(* Specification SpecCatch: one run of the catch command *)

CatchInit ==
    /\ catchPc = "idle"
    /\ catchOptions \in CatchOptions
    /\ ran = <<>>
    /\ needsBaselineCreation = FALSE
    /\ IdleButCatch

\* if (options.uninstall) { await uninstallGuard(); return; }
RunCatch ==
    /\ catchPc = "idle"
    /\ IF catchOptions.uninstall
       THEN ran' = <<"uninstallGuard">> /\ catchPc' = "returned"
       ELSE ran' = <<>> /\ catchPc' = "audit"
    /\ UNCHANGED <<catchOptions, needsBaselineCreation, otherThanCatch>>

\* Phase 1; fixable: getFixableFindings(auditResult) is not empty
AuditPhase(fixable) ==
    /\ catchPc = "audit"
    /\ ran' = IF auditPhase(catchOptions)
              THEN ran \o <<"runAudit">>
                       \o (IF catchOptions.fix /\ fixable
                           THEN <<"applyFixes">> ELSE <<>>)
              ELSE ran
    /\ catchPc' = "skills"
    /\ UNCHANGED <<catchOptions, needsBaselineCreation, otherThanCatch>>

\* Phases 2 and 3; baselinePresent: drift.baselinePresent
SkillAndIntegrityPhase(baselinePresent) ==
    /\ catchPc = "skills"
    /\ IF fullFlowPhase(catchOptions)
       THEN /\ ran' = ran \o <<"scanInstalledSkills",
                               "detectExtensionsIntegrityDrift">>
            /\ needsBaselineCreation' = ~baselinePresent
       ELSE UNCHANGED <<ran, needsBaselineCreation>>
    /\ catchPc' = "forensic"
    /\ UNCHANGED <<catchOptions, otherThanCatch>>

\* Phase 4; found: forensicReport.violations is not empty
ForensicPhase(found) ==
    /\ catchPc = "forensic"
    /\ ran' = IF forensicPhase(catchOptions)
              THEN ran \o <<"forensicScan">>
                       \o (IF catchOptions.interactive /\ found
                           THEN <<"handleInteractiveRedaction">> ELSE <<>>)
              ELSE ran
    /\ catchPc' = "guard"
    /\ UNCHANGED <<catchOptions, needsBaselineCreation, otherThanCatch>>

\* Phase 5
GuardPhase ==
    /\ catchPc = "guard"
    /\ ran' = IF guardPhase(catchOptions) THEN ran \o <<"installGuard">>
              ELSE ran
    /\ catchPc' = "baseline"
    /\ UNCHANGED <<catchOptions, needsBaselineCreation, otherThanCatch>>

\* if (needsBaselineCreation) writeExtensionsBaseline(), then the report
\* and the summary
BaselinePhase ==
    /\ catchPc = "baseline"
    /\ ran' = IF needsBaselineCreation
              THEN ran \o <<"writeExtensionsBaseline">> ELSE ran
    /\ catchPc' = "returned"
    /\ UNCHANGED <<catchOptions, needsBaselineCreation, otherThanCatch>>

CatchNext ==
    \/ RunCatch
    \/ \E fixable \in BOOLEAN : AuditPhase(fixable)
    \/ \E baselinePresent \in BOOLEAN : SkillAndIntegrityPhase(baselinePresent)
    \/ \E found \in BOOLEAN : ForensicPhase(found)
    \/ GuardPhase
    \/ BaselinePhase

SpecCatch == CatchInit /\ [][CatchNext]_vars

----------------------------------------------------------------------------
(* dashboard API: parseBody, handleUpdateRule *)

MAX_BODY_SIZE == 1048576

\* sizes of the chunks the 'data' event delivers
ChunkSizes == {524288, 1048576}

\* lengths of the request bodies the client sends
BodyLengths == {0, 64, 1048576, 1048640, 1572928}

\* built-in rules, and an id no stored rule has
BuiltInRuleIds == {"pii-email", "pii-phone"}
RuleIds == BuiltInRuleIds \cup {"no-such-rule"}

\* the request bodies: JSON with ruleId and updates, JSON without ruleId,
\* text that is not JSON; a body of length 0 has nothing to parse
Payloads ==
    {[kind |-> "update", ruleId |-> id, enabled |-> e, length |-> n] :
        id \in RuleIds, e \in BOOLEAN, n \in BodyLengths \ {0}}
    \cup {[kind |-> k, ruleId |-> "", enabled |-> FALSE, length |-> n] :
            k \in {"noRuleId", "invalid"}, n \in BodyLengths \ {0}}
    \cup {[kind |-> "empty", ruleId |-> "", enabled |-> FALSE, length |-> 0]}

NoResponse == [status |-> 0, success |-> FALSE, error |-> ""]

\* sendJson(res, data, status = 200)
sendJson(success, error, status) ==
    [status |-> status, success |-> success, error |-> error]

\* String(new Error(message))
StringOfError(message) == "Error: " \o message

\* updateRule: a built-in rule takes the updates, an unknown id changes
\* nothing
updateRule(config, ruleId, enabled) ==
    IF ruleId \in BuiltInRuleIds THEN [config EXCEPT ![ruleId] = enabled]
    ELSE config

----------------------------------------------------------------------------
(* Specification SpecDashboard: POST requests to /api/rules/update *)

DashboardInit ==
    /\ dPc = "idle"
    /\ payload = [kind |-> "empty", ruleId |-> "", enabled |-> FALSE,
                  length |-> 0]
    /\ body = 0
    /\ res = NoResponse
    /\ ruleConfig = [id \in BuiltInRuleIds |-> TRUE]
    /\ configBefore = [id \in BuiltInRuleIds |-> TRUE]
    /\ requests = 0
    /\ IdleButDashboard

\* the request arrives: handleUpdateRule awaits parseBody(req)
PostUpdateRule(p) ==
    /\ dPc \in {"idle", "responded"}
    /\ requests < MaxRequests
    /\ payload' = p
    /\ body' = 0
    /\ res' = NoResponse
    /\ configBefore' = ruleConfig
    /\ requests' = requests + 1
    /\ dPc' = "receiving"
    /\ UNCHANGED <<ruleConfig, otherThanDashboard>>

\* req.on("data"): body += chunk; over the limit the request is destroyed
\* and the promise rejected, which handleUpdateRule catches
OnData(size) ==
    /\ dPc = "receiving"
    /\ body < payload.length
    /\ LET chunk == IF size < payload.length - body THEN size
                    ELSE payload.length - body
       IN  /\ body' = body + chunk
           /\ IF body + chunk > MAX_BODY_SIZE
              THEN /\ res' = sendJson(FALSE, StringOfError("Body too large"),
                                      500)
                   /\ dPc' = "responded"
              ELSE UNCHANGED <<res, dPc>>
    /\ UNCHANGED <<payload, ruleConfig, configBefore, requests,
                   otherThanDashboard>>

\* req.on("end"): the body is parsed and handleUpdateRule goes on
OnEnd ==
    /\ dPc = "receiving"
    /\ body = payload.length
    /\ IF payload.kind = "invalid"
       THEN /\ res' = sendJson(FALSE, StringOfError("Invalid JSON"),
                               500)
            /\ UNCHANGED ruleConfig
       ELSE IF payload.kind \in {"empty", "noRuleId"}
       THEN /\ res' = sendJson(FALSE, "Missing ruleId", 400)
            /\ UNCHANGED ruleConfig
       ELSE /\ ruleConfig' = updateRule(ruleConfig, payload.ruleId,
                                        payload.enabled)
            /\ res' = sendJson(TRUE, "", 200)
    /\ dPc' = "responded"
    /\ UNCHANGED <<payload, body, configBefore, requests,
                   otherThanDashboard>>

DashboardNext ==
    \/ \E p \in Payloads : PostUpdateRule(p)
    \/ \E size \in ChunkSizes : OnData(size)
    \/ OnEnd

SpecDashboard == DashboardInit /\ [][DashboardNext]_vars

----------------------------------------------------------------------------
(* engine.ts: the while loops of scanContentRule and scanPiiRule, one      *)
(* iteration at a time                                                     *)

LoopChars == {"a", "b", "S"}

RECURSIVE LoopTexts(_)
LoopTexts(n) ==
    IF n = 0 THEN {<<>>}
    ELSE LET shorter == LoopTexts(n - 1)
         IN  shorter \cup {Append(t, c) : t \in shorter, c \in LoopChars}

\* keywords of a content rule: "", "a", "ab", "s"
LoopKeywords == {<<>>, <<"a">>, <<"a", "b">>, <<"s">>}

\* /a+/g, /a*/g, /\b/g and /a+/ (no g flag)
LoopPatterns ==
    {[items |-> <<Cls({"a"}, 1, 9)>>, global |-> TRUE],
     [items |-> <<Cls({"a"}, 0, 9)>>, global |-> TRUE],
     [items |-> <<WordBoundary>>, global |-> TRUE],
     [items |-> <<Cls({"a"}, 1, 9)>>, global |-> FALSE]}

LoopMatchers ==
    {[kind |-> "keyword", keyword |-> k, items |-> <<>>, global |-> FALSE] :
        k \in LoopKeywords}
    \cup {[kind |-> "pattern", keyword |-> <<>>, items |-> p.items,
           global |-> p.global] : p \in LoopPatterns}

\* violations.push(...)
pushed(n) == IF n < MaxPushed THEN n + 1 ELSE MaxPushed

\* pos += keyword.length
advance(p, keyword) == p + Len(keyword)

----------------------------------------------------------------------------
(* Specification SpecLoop: one while loop of the scanner over one text *)

LoopInit ==
    /\ lpContent \in LoopTexts(MaxLoopText)
    /\ lpMatcher \in LoopMatchers
    /\ lpPos = 0
    /\ lpPushed = 0
    /\ lpPc = "looping"
    /\ IdleButLoop

\* while ((pos = lowerContent.indexOf(lowerKw, pos)) !== -1)
\*     { violations.push(...); pos += keyword.length; }
KeywordIteration ==
    /\ lpPc = "looping"
    /\ lpMatcher.kind = "keyword"
    /\ LET p == indexOf(toLowerCase(lpContent),
                        toLowerCase(lpMatcher.keyword), lpPos)
       IN  /\ p # -1
           /\ lpPushed' = pushed(lpPushed)
           /\ lpPos' = advance(p, lpMatcher.keyword)
    /\ UNCHANGED <<lpContent, lpMatcher, lpPc, otherThanLoop>>

KeywordLoopEnds ==
    /\ lpPc = "looping"
    /\ lpMatcher.kind = "keyword"
    /\ indexOf(toLowerCase(lpContent), toLowerCase(lpMatcher.keyword),
               lpPos) = -1
    /\ lpPc' = "returned"
    /\ UNCHANGED <<lpContent, lpMatcher, lpPos, lpPushed, otherThanLoop>>

\* where re.exec(content) starts: lastIndex with the g flag, 0 without
execStart == IF lpMatcher.global THEN lpPos ELSE 0

\* while ((match = re.exec(content)) !== null) { violations.push(...); }
\* exec leaves lastIndex at the end of the match when the g flag is set
PatternIteration ==
    /\ lpPc = "looping"
    /\ lpMatcher.kind = "pattern"
    /\ LET i == firstMatchFrom(lpMatcher.items, lpContent, execStart)
       IN  /\ i # -1
           /\ lpPushed' = pushed(lpPushed)
           /\ lpPos' = IF lpMatcher.global
                       THEN matchHere(lpMatcher.items, 1, lpContent, i)
                       ELSE lpPos
    /\ UNCHANGED <<lpContent, lpMatcher, lpPc, otherThanLoop>>

PatternLoopEnds ==
    /\ lpPc = "looping"
    /\ lpMatcher.kind = "pattern"
    /\ firstMatchFrom(lpMatcher.items, lpContent, execStart) = -1
    /\ lpPc' = "returned"
    /\ lpPos' = 0
    /\ UNCHANGED <<lpContent, lpMatcher, lpPushed, otherThanLoop>>

LoopNext ==
    \/ KeywordIteration
    \/ KeywordLoopEnds
    \/ PatternIteration
    \/ PatternLoopEnds

SpecLoop == LoopInit /\ [][LoopNext]_vars

\* a loop that can take a step takes it
SpecLoopRuns == SpecLoop /\ WF_vars(LoopNext)

----------------------------------------------------------------------------
(* Specification SpecRoundTrip: serializeJsonl(parseJsonl(text)) *)

\* the lines a log file is made of
RoundTripLines ==
    { BlankLine,
      NullLine,
      MalformedLine(FALSE, <<"{">>),
      MalformedLine(TRUE, <<"{">>),
      JsonLine(FALSE, "message", "assistant", PlainText),
      JsonLine(TRUE, "message", "user", PlainText),
      JsonLine(FALSE, "session", "none", <<>>),
      MarkedLine(FALSE, "custom", <<"x">>) }

RECURSIVE RoundTripTexts(_)
\* the texts of at most n lines, each ending with a newline
RoundTripTexts(n) ==
    IF n = 0 THEN {<<BlankLine>>}
    ELSE LET shorter == RoundTripTexts(n - 1)
         IN  shorter \cup {<<l>> \o t : l \in RoundTripLines, t \in shorter}

RoundTripInit ==
    /\ rtInput \in RoundTripTexts(MaxLines)
    /\ rtOutput = <<>>
    /\ rtPc = "idle"
    /\ IdleButRoundTrip

\* `"__raw" in entry` throws a TypeError when entry is null
RoundTrip ==
    /\ rtPc = "idle"
    /\ LET entries == parseJsonl(rtInput)
       IN  IF \E i \in 1..Len(entries) : entries[i].kind = "null"
           THEN /\ rtPc' = "threw"
                /\ UNCHANGED rtOutput
           ELSE /\ rtPc' = "returned"
                /\ rtOutput' = serializeJsonl(entries)
    /\ UNCHANGED <<rtInput, otherThanRoundTrip>>

\* the next file
RoundTripAgain(text) ==
    /\ rtPc # "idle"
    /\ rtInput' = text
    /\ rtOutput' = <<>>
    /\ rtPc' = "idle"
    /\ UNCHANGED otherThanRoundTrip

RoundTripNext ==
    \/ RoundTrip
    \/ \E text \in RoundTripTexts(MaxLines) : RoundTripAgain(text)

SpecRoundTrip == RoundTripInit /\ [][RoundTripNext]_vars

----------------------------------------------------------------------------
(* Specification SpecQuarantineRace: two calls of quarantineSkill, each    *)
(* advancing from one await to the next, in any interleaving.              *)

Calls == {1, 2}

NotCalled ==
    [pc |-> "idle", skillPath |-> resolveSkillInstallPath("skill-a"),
     db |-> loadDb(NoLedgerFile), record |-> NoRecord]

inFlight(call) == call.pc \in {"load", "move", "write", "rename"}

\* db.records.push(record) that drops what was loaded
push_forgetsLoaded(db, record) == [db EXCEPT !.records = <<record>>]

\* db.records.push(record)
push(db, record) == [db EXCEPT !.records = Append(@, record)]

RaceInit ==
    /\ raceFs \in { [p \in QuarantinePaths |->
                       IF Len(p) = 2 THEN trees[p] ELSE Vacant] :
                    trees \in [{resolveSkillInstallPath(n) : n \in SkillNames}
                                  -> {"tree1", "tree2"}] }
    /\ raceLedger = NoLedgerFile
    /\ raceTemp = NoLedgerFile
    /\ procs = [c \in Calls |-> NotCalled]
    /\ raceClock = 1
    /\ overlapped = FALSE
    /\ IdleButRace

\* quarantineSkill(skillPath, detectedRuleIds, reason) is called
RaceCall(c, skillPath) ==
    /\ procs[c].pc = "idle"
    /\ procs' = [procs EXCEPT ![c].pc = "load", ![c].skillPath = skillPath]
    /\ overlapped' = (overlapped \/ \E d \in Calls \ {c} : inFlight(procs[d]))
    /\ UNCHANGED <<raceFs, raceLedger, raceTemp, raceClock, otherThanRace>>

\* const db = await loadDb(); id, timestamp and destination are computed
RaceLoadDb(c) ==
    /\ procs[c].pc = "load"
    /\ procs' = [procs EXCEPT
           ![c].pc = "move",
           ![c].db = loadDb(raceLedger),
           ![c].record = QuarantineRecord(procs[c].skillPath, Uuids[c],
                             <<"malware-staged-delivery">>, "scan",
                             raceClock)]
    /\ raceClock' = raceClock + 1
    /\ UNCHANGED <<raceFs, raceLedger, raceTemp, overlapped, otherThanRace>>

\* await rename(skillPath, destination)
RaceMove(c) ==
    /\ procs[c].pc = "move"
    /\ ~renameThrows(raceFs, procs[c].skillPath,
                     procs[c].record.quarantinedPath)
    /\ raceFs' = rename(raceFs, procs[c].skillPath,
                        procs[c].record.quarantinedPath)
    /\ procs' = [procs EXCEPT ![c].pc = "write"]
    /\ UNCHANGED <<raceLedger, raceTemp, raceClock, overlapped,
                   otherThanRace>>

\* rename(skillPath, destination) throws: the other call took the item
RaceMoveThrows(c) ==
    /\ procs[c].pc = "move"
    /\ renameThrows(raceFs, procs[c].skillPath,
                    procs[c].record.quarantinedPath)
    /\ procs' = [procs EXCEPT ![c].pc = "threw"]
    /\ UNCHANGED <<raceFs, raceLedger, raceTemp, raceClock, overlapped,
                   otherThanRace>>

\* db.records.push(record); saveDb: await writeFile(temp, ...)
RaceWriteTemp(c) ==
    /\ procs[c].pc = "write"
    /\ raceTemp' = push(procs[c].db, procs[c].record)
    /\ procs' = [procs EXCEPT ![c].pc = "rename"]
    /\ UNCHANGED <<raceFs, raceLedger, raceClock, overlapped, otherThanRace>>

\* saveDb: await rename(temp, path); the call returns its record
RaceRenameTemp(c) ==
    /\ procs[c].pc = "rename"
    /\ raceTemp # NoLedgerFile
    /\ raceLedger' = raceTemp
    /\ raceTemp' = NoLedgerFile
    /\ procs' = [procs EXCEPT ![c].pc = "returned"]
    /\ UNCHANGED <<raceFs, raceClock, overlapped, otherThanRace>>

\* saveDb: rename(temp, path) throws, the other call renamed the temp file
RaceRenameTempThrows(c) ==
    /\ procs[c].pc = "rename"
    /\ raceTemp = NoLedgerFile
    /\ procs' = [procs EXCEPT ![c].pc = "threw"]
    /\ UNCHANGED <<raceFs, raceLedger, raceTemp, raceClock, overlapped,
                   otherThanRace>>

RaceNext ==
    \E c \in Calls :
        \/ \E n \in SkillNames : RaceCall(c, resolveSkillInstallPath(n))
        \/ RaceLoadDb(c)
        \/ RaceMove(c)
        \/ RaceMoveThrows(c)
        \/ RaceWriteTemp(c)
        \/ RaceRenameTemp(c)
        \/ RaceRenameTempThrows(c)

SpecQuarantineRace == RaceInit /\ [][RaceNext]_vars


----------------------------------------------------------------------------
(* Specification SpecMask: one raw match goes through the masking of the  *)
(* detection previews (engine.ts) and through the masking of the          *)
(* rewritten log text (redact.ts).                                        *)

MatchChars == {"a", "1"}
RawMatches == UNION {[1..n -> MatchChars] : n \in 0..MaxMatchLen}

MaskInit ==
    /\ maskRaw \in RawMatches
    /\ maskPreview = <<>>
    /\ maskRewritten = <<>>
    /\ maskPc = "idle"
    /\ IdleButMask

\* scanPiiRule builds matchPreview; redactContent replaces the match
MaskMatch ==
    /\ maskPc = "idle"
    /\ maskPreview' = redact(maskRaw)
    /\ maskRewritten' = redactString(maskRaw)
    /\ maskPc' = "masked"
    /\ UNCHANGED <<maskRaw, otherThanMask>>

MaskNext == MaskMatch

SpecMask == MaskInit /\ [][MaskNext]_vars


----------------------------------------------------------------------------
(* redact.ts: getMessageContent and setMessageContent on a content that   *)
(* is a list of typed blocks.  A block is its type and its text; a block  *)
(* without a text (a thinking block) has the text Undefined.              *)

Block(type, text) == [type |-> type, text |-> text]

RECURSIVE joinLines(_)
\* array.join("\n")
joinLines(texts) ==
    IF texts = <<>> THEN <<>>
    ELSE IF Len(texts) = 1 THEN texts[1]
    ELSE texts[1] \o <<NewLine>> \o joinLines(Tail(texts))

\* content.map((block) => block.text ?? "").join("\n")
getMessageContent(blocks) ==
    joinLines([i \in 1..Len(blocks) |->
                  IF blocks[i].text = Undefined THEN <<>> ELSE blocks[i].text])

\* b.type === "text" || b.text
isTextBlock(b) == b.type = "text" \/ (b.text # Undefined /\ b.text # <<>>)

\* content.find(...): the index of the first text block, 0 for undefined
findTextBlock(blocks) ==
    IF \E i \in 1..Len(blocks) : isTextBlock(blocks[i])
    THEN CHOOSE i \in 1..Len(blocks) :
            /\ isTextBlock(blocks[i])
            /\ \A j \in 1..(i - 1) : ~isTextBlock(blocks[j])
    ELSE 0

\* the Array branch of setMessageContent
setMessageContent(blocks, newContent) ==
    LET i == findTextBlock(blocks)
    IN  IF i = 0 THEN blocks ELSE [blocks EXCEPT ![i].text = newContent]

----------------------------------------------------------------------------
(* Specification SpecBlocks: the body of the violation loop of            *)
(* applyRedactions on one assistant message with a block list.            *)

BlockTexts == {Undefined, <<>>, PlainText, SsnText}
Blocks == {Block(type, text) : type \in {"text", "thinking"}, text \in BlockTexts}
BlockLists == UNION {[1..n -> Blocks] : n \in 1..MaxBlocks}

BlocksInit ==
    /\ blkContent \in BlockLists
    /\ blkBefore = blkContent
    /\ blkRule \in {"pii-ssn", "pii-phone", "content-custom"}
    /\ blkCount = 0
    /\ blkPc = "idle"
    /\ IdleButBlocks

\* const content = getMessageContent(msgEntry); ...; redacted !== content
RedactBlocks ==
    /\ blkPc = "idle"
    /\ LET text == getMessageContent(blkContent)
           redacted == redactContent(text, blkRule)
       IN  /\ redacted # text
           /\ blkContent' = setMessageContent(blkContent, redacted)
           /\ blkCount' = blkCount + 1
    /\ blkPc' = "done"
    /\ UNCHANGED <<blkBefore, blkRule, otherThanBlocks>>

\* redacted === content: the entry is left alone
BlocksUntouched ==
    /\ blkPc = "idle"
    /\ LET text == getMessageContent(blkContent)
       IN  redactContent(text, blkRule) = text
    /\ blkPc' = "done"
    /\ UNCHANGED <<blkContent, blkBefore, blkRule, blkCount, otherThanBlocks>>

BlocksNext == RedactBlocks \/ BlocksUntouched

SpecBlocks == BlocksInit /\ [][BlocksNext]_vars


----------------------------------------------------------------------------
(* catch.ts: handleInteractiveRedaction; ui/interactive.ts:               *)
(* reviewViolations and confirmRedactions.  A violation is its place in   *)
(* report.violations; the decisions map is a sequence over these places.  *)

\* the order of the two nested loops of reviewViolations: the violations
\* grouped by file, the files in the order of their first violation
reviewOrder(reported) ==
    LET firstOf(f) == CHOOSE i \in 1..Len(reported) :
                          /\ reported[i] = f
                          /\ \A j \in 1..(i - 1) : reported[j] # f
        before(i, j) ==
            \/ firstOf(reported[i]) < firstOf(reported[j])
            \/ reported[i] = reported[j] /\ i < j
    IN  [k \in 1..Len(reported) |->
            CHOOSE i \in 1..Len(reported) :
                Cardinality({j \in 1..Len(reported) : before(j, i)}) = k - 1]

\* the quit test that never finds a quit
quitChosen_never(decisions) == FALSE

\* [...decisions.values()].includes("quit")
quitChosen(decisions) == \E i \in 1..Len(decisions) : decisions[i] = "quit"

\* the keys of byFile in applyRedactions: the files with a redact decision
redactedFiles(reported, decisions) ==
    {reported[i] : i \in {j \in 1..Len(reported) : decisions[j] = "redact"}}

NoBulk == [action |-> "none", at |-> 0]
NoAnswers == [review |-> "none", proceed |-> "none"]
SelectKeys == {"r", "s", "R", "S", "q"}

ReviewInit ==
    /\ irViolations \in UNION {[1..n -> SessionFiles] : n \in 0..MaxReviewed}
    /\ irPc = "start"
    /\ irDecisions = [i \in 1..Len(irViolations) |-> "none"]
    /\ irBulk = NoBulk
    /\ irNext = 1
    /\ irPrompted = {}
    /\ irAnswers = NoAnswers
    /\ irTouched = {}
    /\ IdleButReview

\* report.violations.length === 0: return
NothingToReview ==
    /\ irPc = "start"
    /\ irViolations = <<>>
    /\ irPc' = "returned"
    /\ UNCHANGED <<irViolations, irDecisions, irBulk, irNext, irPrompted,
                   irAnswers, irTouched, otherThanReview>>

\* const shouldReview = await confirm(...)
ConfirmReview(answer) ==
    /\ irPc = "start"
    /\ irViolations # <<>>
    /\ irAnswers' = [irAnswers EXCEPT !.review = answer]
    /\ irPc' = IF answer = "yes" THEN "review" ELSE "returned"
    /\ UNCHANGED <<irViolations, irDecisions, irBulk, irNext, irPrompted,
                   irTouched, otherThanReview>>

\* if (redactAll) / if (skipAll): the decision is set and the loop continues
BulkDecision ==
    /\ irPc = "review"
    /\ irNext <= Len(irViolations)
    /\ irBulk.action # "none"
    /\ irDecisions' =
          [irDecisions EXCEPT ![reviewOrder(irViolations)[irNext]] = irBulk.action]
    /\ irNext' = irNext + 1
    /\ UNCHANGED <<irViolations, irPc, irBulk, irPrompted, irAnswers, irTouched,
                   otherThanReview>>

\* const action = await select(...); switch (action)
Select(key) ==
    /\ irPc = "review"
    /\ irNext <= Len(irViolations)
    /\ irBulk.action = "none"
    /\ LET v == reviewOrder(irViolations)[irNext]
           action == CASE key \in {"r", "R"} -> "redact"
                       [] key \in {"s", "S"} -> "skip"
                       [] OTHER -> "quit"
       IN  /\ irPrompted' = irPrompted \cup {v}
           /\ irDecisions' = [irDecisions EXCEPT ![v] = action]
           /\ irBulk' = IF key \in {"R", "S"}
                        THEN [action |-> action, at |-> irNext]
                        ELSE irBulk
           /\ irPc' = IF key = "q" THEN "reviewed" ELSE "review"
    /\ irNext' = irNext + 1
    /\ UNCHANGED <<irViolations, irAnswers, irTouched, otherThanReview>>

\* the loops of reviewViolations end: return decisions
ReviewComplete ==
    /\ irPc = "review"
    /\ irNext > Len(irViolations)
    /\ irPc' = "reviewed"
    /\ UNCHANGED <<irViolations, irDecisions, irBulk, irNext, irPrompted,
                   irAnswers, irTouched, otherThanReview>>

\* if ([...decisions.values()].includes("quit")) return
ReviewCancelled ==
    /\ irPc = "reviewed"
    /\ quitChosen(irDecisions)
    /\ irPc' = "returned"
    /\ UNCHANGED <<irViolations, irDecisions, irBulk, irNext, irPrompted,
                   irAnswers, irTouched, otherThanReview>>

\* confirmRedactions: toRedact.length === 0 gives false without a question
NothingMarked ==
    /\ irPc = "reviewed"
    /\ ~quitChosen(irDecisions)
    /\ redactedFiles(irViolations, irDecisions) = {}
    /\ irPc' = "returned"
    /\ UNCHANGED <<irViolations, irDecisions, irBulk, irNext, irPrompted,
                   irAnswers, irTouched, otherThanReview>>

\* confirm("Proceed with redaction?") and, on yes, applyRedactions(decisions)
ConfirmRedactions(answer) ==
    /\ irPc = "reviewed"
    /\ ~quitChosen(irDecisions)
    /\ redactedFiles(irViolations, irDecisions) # {}
    /\ irAnswers' = [irAnswers EXCEPT !.proceed = answer]
    /\ irTouched' = IF answer = "yes"
                    THEN redactedFiles(irViolations, irDecisions)
                    ELSE irTouched
    /\ irPc' = "returned"
    /\ UNCHANGED <<irViolations, irDecisions, irBulk, irNext, irPrompted,
                   otherThanReview>>

ReviewNext ==
    \/ NothingToReview
    \/ \E answer \in {"yes", "no"} : ConfirmReview(answer)
    \/ BulkDecision
    \/ \E key \in SelectKeys : Select(key)
    \/ ReviewComplete
    \/ ReviewCancelled
    \/ NothingMarked
    \/ \E answer \in {"yes", "no"} : ConfirmRedactions(answer)

SpecReview == ReviewInit /\ [][ReviewNext]_vars


----------------------------------------------------------------------------
(* Specification SpecDashScan: api.ts handleScan.  The requests arrive    *)
(* at any time; a call runs from one await to the next without            *)
(* interleaving, as the event loop runs it.                               *)

ScanRequests == 1..MaxScanRequests
\* pc: waiting (not arrived), scanning (await forensicScan), recording
\* (await recordScanEvent), done; busy: what the call read in scanInProgress
ScanCall(pc, status, busy) == [pc |-> pc, status |-> status, busy |-> busy]

DashScanInit ==
    /\ scanInProgress = FALSE
    /\ lastScanResult = "null"
    /\ scanCalls = [r \in ScanRequests |-> ScanCall("waiting", 0, FALSE)]
    /\ scansStarted = 0
    /\ IdleButDashScan

\* if (scanInProgress) { sendJson(..., 409); return; }
ScanRefused(r) ==
    /\ scanCalls[r].pc = "waiting"
    /\ scanInProgress
    /\ scanCalls' = [scanCalls EXCEPT ![r] = ScanCall("done", 409, TRUE)]
    /\ UNCHANGED <<scanInProgress, lastScanResult, scansStarted, otherThanDashScan>>

\* scanInProgress = true; lastScanResult = null; await forensicScan(rules)
ScanStarts(r) ==
    /\ scanCalls[r].pc = "waiting"
    /\ ~scanInProgress
    /\ scanInProgress' = TRUE
    /\ lastScanResult' = "null"
    /\ scansStarted' = scansStarted + 1
    /\ scanCalls' = [scanCalls EXCEPT ![r] = ScanCall("scanning", 0, FALSE)]
    /\ UNCHANGED otherThanDashScan

\* forensicScan resolves: the counts are built, await recordScanEvent(...)
ScanResolves(r) ==
    /\ scanCalls[r].pc = "scanning"
    /\ scanCalls' = [scanCalls EXCEPT ![r].pc = "recording"]
    /\ UNCHANGED <<scanInProgress, lastScanResult, scansStarted, otherThanDashScan>>

\* an await rejects, the finally block left out
ScanFails_noFinally(r) ==
    /\ scanCalls[r].pc \in {"scanning", "recording"}
    /\ scanCalls' = [scanCalls EXCEPT ![r].pc = "done", ![r].status = 500]
    /\ UNCHANGED <<scanInProgress, lastScanResult, scansStarted, otherThanDashScan>>

\* forensicScan or recordScanEvent rejects: catch sends 500, then finally
ScanFails(r) ==
    /\ scanCalls[r].pc \in {"scanning", "recording"}
    /\ scanCalls' = [scanCalls EXCEPT ![r].pc = "done", ![r].status = 500]
    /\ scanInProgress' = FALSE
    /\ UNCHANGED <<lastScanResult, scansStarted, otherThanDashScan>>

\* recordScanEvent resolves: lastScanResult is set, 200 is sent, then finally
ScanSucceeds(r) ==
    /\ scanCalls[r].pc = "recording"
    /\ lastScanResult' = "set"
    /\ scanCalls' = [scanCalls EXCEPT ![r].pc = "done", ![r].status = 200]
    /\ scanInProgress' = FALSE
    /\ UNCHANGED <<scansStarted, otherThanDashScan>>

DashScanNext ==
    \E r \in ScanRequests :
        \/ ScanRefused(r)
        \/ ScanStarts(r)
        \/ ScanResolves(r)
        \/ ScanFails(r)
        \/ ScanSucceeds(r)

SpecDashScan == DashScanInit /\ [][DashScanNext]_vars


----------------------------------------------------------------------------
(* skill-scan.ts: listSkillDirectories and the skill loop of              *)
(* scanInstalledSkills.  What the file loop finds in a skill and whether  *)
(* quarantineSkill throws is the choice of the environment.               *)

\* the entries the extensions directory can hold, in localeCompare order:
\* three directories, a regular file and a symbolic link to a directory
EntryNames == <<"a", "b", "linked", "lobstercage", "notes">>
entryKind(name) ==
    CASE name = "notes" -> "file" [] name = "linked" -> "link" [] OTHER -> "dir"

\* listSkillDirectories with the test on the name left out
listSkillDirectories_all(entries) ==
    SelectSeq(EntryNames, LAMBDA e : e \in entries /\ entryKind(e) = "dir")

\* the names of the skills, sorted; the path of a skill is its name
listSkillDirectories(entries) ==
    SelectSeq(EntryNames,
              LAMBDA e : e \in entries /\ e # "lobstercage" /\ entryKind(e) = "dir")

EmptyReport ==
    [skillsScanned |-> 0, findings |-> <<>>, quarantinedCount |-> 0,
     errors |-> <<>>]
NotQuarantined == [id |-> "undefined"]
SkillFinding(skillName, found, quarantined) ==
    [skillName |-> skillName, violations |-> found, quarantined |-> quarantined]
\* the rule ids of the violations found in one skill
FoundViolations ==
    UNION {[1..n -> {"malware-shell", "content-custom"}] : n \in 1..MaxSkillViolations}

SkillScanInit ==
    /\ ssEntries \in SUBSET SeqRange(EntryNames)
    /\ ssOptions \in [quarantine : BOOLEAN]
    /\ ssPc = "listing"
    /\ ssSkills = <<>>
    /\ ssIdx = 1
    /\ ssReport = EmptyReport
    /\ ssListed = {}
    /\ ssCalls = {}
    /\ ssThrown = 0
    /\ IdleButSkillScan

\* const skills = await listSkillDirectories()
ListSkillDirectories ==
    /\ ssPc = "listing"
    /\ ssSkills' = listSkillDirectories(ssEntries)
    /\ ssPc' = "looping"
    /\ UNCHANGED <<ssEntries, ssOptions, ssIdx, ssReport, ssListed, ssCalls,
                   ssThrown, otherThanSkillScan>>

\* an iteration whose listFilesRecursive or scanContent throws
SkillScanThrows ==
    /\ ssPc = "looping" /\ ssIdx <= Len(ssSkills)
    /\ ssReport' = [ssReport EXCEPT
                       !.skillsScanned = @ + 1,
                       !.errors = Append(@, <<"Failed to scan", ssSkills[ssIdx]>>)]
    /\ ssListed' = ssListed \cup {ssSkills[ssIdx]}
    /\ ssThrown' = ssThrown + 1
    /\ ssIdx' = ssIdx + 1
    /\ UNCHANGED <<ssEntries, ssOptions, ssPc, ssSkills, ssCalls, otherThanSkillScan>>

\* an iteration that finds no violation: violations.length === 0
SkillClean ==
    /\ ssPc = "looping" /\ ssIdx <= Len(ssSkills)
    /\ ssReport' = [ssReport EXCEPT !.skillsScanned = @ + 1]
    /\ ssListed' = ssListed \cup {ssSkills[ssIdx]}
    /\ ssIdx' = ssIdx + 1
    /\ UNCHANGED <<ssEntries, ssOptions, ssPc, ssSkills, ssCalls, ssThrown,
                   otherThanSkillScan>>

\* an iteration that finds violations; quarantineSkill, when it is called,
\* returns its record (quarantineOk) or throws
SkillFound(found, quarantineOk) ==
    /\ ssPc = "looping" /\ ssIdx <= Len(ssSkills)
    /\ LET skill == ssSkills[ssIdx]
           called == ssOptions.quarantine
           finding == SkillFinding(skill, found,
                          IF called /\ quarantineOk THEN [id |-> skill]
                          ELSE NotQuarantined)
       IN  /\ ssReport' = [ssReport EXCEPT
                 !.skillsScanned = @ + 1,
                 !.quarantinedCount = IF called /\ quarantineOk THEN @ + 1 ELSE @,
                 !.errors = IF called /\ ~quarantineOk
                            THEN Append(@, <<"Failed to quarantine", skill>>)
                            ELSE @,
                 !.findings = Append(@, finding)]
           /\ ssCalls' = IF called THEN ssCalls \cup {skill} ELSE ssCalls
           /\ ssThrown' = IF called /\ ~quarantineOk THEN ssThrown + 1 ELSE ssThrown
           /\ ssListed' = ssListed \cup {skill}
    /\ ssIdx' = ssIdx + 1
    /\ UNCHANGED <<ssEntries, ssOptions, ssPc, ssSkills, otherThanSkillScan>>

\* return report
SkillScanReturns ==
    /\ ssPc = "looping" /\ ssIdx > Len(ssSkills)
    /\ ssPc' = "returned"
    /\ UNCHANGED <<ssEntries, ssOptions, ssSkills, ssIdx, ssReport, ssListed,
                   ssCalls, ssThrown, otherThanSkillScan>>

SkillScanNext ==
    \/ ListSkillDirectories
    \/ SkillScanThrows
    \/ SkillClean
    \/ \E found \in FoundViolations, quarantineOk \in BOOLEAN :
          SkillFound(found, quarantineOk)
    \/ SkillScanReturns

SpecSkillScan == SkillScanInit /\ [][SkillScanNext]_vars


----------------------------------------------------------------------------
(* Specification SpecRewrite: a message is scanned under one PII rule     *)
(* and, when the scan reports a violation, redacted under the id of that  *)
(* rule, as the review flow does with a "redact" decision.                *)

PiiRule(type) ==
    Rule("pii-" \o type, "pii", TRUE, "block", type, <<>>, <<>>)

RewriteInit ==
    /\ rwText \in Contents
    /\ rwRule \in {PiiRule(type) : type \in PiiTypes}
    /\ rwFound = <<>>
    /\ rwOut = <<>>
    /\ rwPc = "idle"
    /\ IdleButRewrite

\* scanPiiRule(content, rule)
Detect ==
    /\ rwPc = "idle"
    /\ rwFound' = scanPiiRule(rwText, rwRule)
    /\ rwPc' = "scanned"
    /\ UNCHANGED <<rwText, rwRule, rwOut, otherThanRewrite>>

\* redactContent(content, violation.ruleId) for a reported violation
Redact ==
    /\ rwPc = "scanned"
    /\ rwFound # <<>>
    /\ rwOut' = redactContent(rwText, rwFound[1].ruleId)
    /\ rwPc' = "done"
    /\ UNCHANGED <<rwText, rwRule, rwFound, otherThanRewrite>>

RewriteNext == Detect \/ Redact

SpecRewrite == RewriteInit /\ [][RewriteNext]_vars


----------------------------------------------------------------------------
(* Specification SpecQuarantineStop: quarantineSkill and                  *)
(* restoreQuarantinedSkill run one at a time, from one await to the       *)
(* next, and the process can stop at any await.                           *)

NoCall == [pc |-> "idle", op |-> "none", db |-> loadDb(NoLedgerFile),
           record |-> NoRecord, index |-> 0]

StopInit ==
    /\ stFs = [p \in QuarantinePaths |-> IF Len(p) = 2 THEN "tree1" ELSE Vacant]
    /\ stLedger = NoLedgerFile
    /\ stTemp = NoLedgerFile
    /\ stCall = NoCall
    /\ stIds = 0
    /\ stClock = 1
    /\ IdleButStop

\* quarantineSkill: const db = await loadDb(); id, timestamp, destination
StopQuarantineLoads(skillPath) ==
    /\ stCall.pc \in {"idle", "returned", "threw"}
    /\ stClock <= MaxQuarantineOps
    /\ stCall' = [pc |-> "move", op |-> "quarantine", db |-> loadDb(stLedger),
                  record |-> QuarantineRecord(skillPath, Uuids[stIds + 1],
                                 <<"malware-staged-delivery">>, "scan", stClock),
                  index |-> 0]
    /\ stIds' = stIds + 1
    /\ stClock' = stClock + 1
    /\ UNCHANGED <<stFs, stLedger, stTemp, otherThanStop>>

\* restoreQuarantinedSkill: const db = await loadDb(); the record is found
StopRestoreLoads(identifier) ==
    /\ stCall.pc \in {"idle", "returned", "threw"}
    /\ stClock <= MaxQuarantineOps
    /\ LET db == loadDb(stLedger)
           i == findActive(db, identifier)
       IN  stCall' = IF i = 0
                     THEN [pc |-> "returned", op |-> "restore", db |-> db,
                           record |-> NoRecord, index |-> 0]
                     ELSE [pc |-> "move", op |-> "restore", db |-> db,
                           record |-> db.records[i], index |-> i]
    /\ stClock' = stClock + 1
    /\ UNCHANGED <<stFs, stLedger, stTemp, stIds, otherThanStop>>

\* the source and the destination of the rename of the call
moveOf(call) ==
    IF call.op = "quarantine"
    THEN [src |-> call.record.originalPath, dest |-> call.record.quarantinedPath]
    ELSE [src |-> call.record.quarantinedPath, dest |-> call.record.originalPath]

\* await rename(skillPath, destination) /
\* await rename(record.quarantinedPath, record.originalPath)
StopMove ==
    /\ stCall.pc = "move"
    /\ ~renameThrows(stFs, moveOf(stCall).src, moveOf(stCall).dest)
    /\ stFs' = rename(stFs, moveOf(stCall).src, moveOf(stCall).dest)
    /\ stCall' = [stCall EXCEPT !.pc = "write"]
    /\ UNCHANGED <<stLedger, stTemp, stIds, stClock, otherThanStop>>

\* the rename throws and so does the call
StopMoveThrows ==
    /\ stCall.pc = "move"
    /\ renameThrows(stFs, moveOf(stCall).src, moveOf(stCall).dest)
    /\ stCall' = [stCall EXCEPT !.pc = "threw"]
    /\ UNCHANGED <<stFs, stLedger, stTemp, stIds, stClock, otherThanStop>>

\* db.records.push(record) / record.restoredAt = ...; saveDb: writeFile(temp)
StopWriteTemp ==
    /\ stCall.pc = "write"
    /\ stTemp' = IF stCall.op = "quarantine"
                 THEN push(stCall.db, stCall.record)
                 ELSE [stCall.db EXCEPT !.records[stCall.index].restoredAt = stClock]
    /\ stCall' = [stCall EXCEPT !.pc = "rename"]
    /\ UNCHANGED <<stFs, stLedger, stIds, stClock, otherThanStop>>

\* saveDb: await rename(temp, path); the call returns
StopRenameTemp ==
    /\ stCall.pc = "rename"
    /\ stLedger' = stTemp
    /\ stTemp' = NoLedgerFile
    /\ stCall' = [stCall EXCEPT !.pc = "returned"]
    /\ UNCHANGED <<stFs, stIds, stClock, otherThanStop>>

\* the process stops while the call waits at an await
ProcessStops ==
    /\ stCall.pc \in {"move", "write", "rename"}
    /\ stCall' = [stCall EXCEPT !.pc = "stopped"]
    /\ UNCHANGED <<stFs, stLedger, stTemp, stIds, stClock, otherThanStop>>

StopNext ==
    \/ \E n \in SkillNames : StopQuarantineLoads(resolveSkillInstallPath(n))
    \/ \E identifier \in Identifiers : StopRestoreLoads(identifier)
    \/ StopMove
    \/ StopMoveThrows
    \/ StopWriteTemp
    \/ StopRenameTemp
    \/ ProcessStops

SpecQuarantineStop == StopInit /\ [][StopNext]_vars

----------------------------------------------------------------------------
(* Helpers of the properties *)

Occurrences(x, s) == Cardinality({i \in 1..Len(s) : s[i] = x})
\* every element of small occurs in big at least as often
IncludedIn(small, big) ==
    \A x \in SeqRange(small) : Occurrences(x, small) <= Occurrences(x, big)

\* the total order Warn < Block < Shutdown
SeverityOrder == <<"warn", "block", "shutdown">>
SeverityRank(a) == CHOOSE i \in 1..3 : SeverityOrder[i] = a

\* the raw text a violation was made from: redact keeps the length
rawOf(v) == SubSeq(content, v.position + 1, v.position + Len(v.matchPreview))

enableRule(ruleList, k) == [ruleList EXCEPT ![k].enabled = TRUE]

RECURSIVE LuhnSum(_, _)
\* digit sum with every second digit from the right doubled (minus 9 above 9);
\* k counts the digits from the right, the rightmost being 1
LuhnSum(ds, k) ==
    IF k > Len(ds) THEN 0
    ELSE LET d == DigitVal[ds[Len(ds) + 1 - k]]
             doubled == IF 2 * d > 9 THEN 2 * d - 9 ELSE 2 * d
         IN  (IF k % 2 = 0 THEN doubled ELSE d) + LuhnSum(ds, k + 1)

----------------------------------------------------------------------------
(* C1: resolveAction returns the maximum action present under             *)
(* Warn < Block < Shutdown, and Warn for the empty list.                  *)
C1_ResolveIsMaximum ==
    rvResult # "none" =>
        /\ rvList = <<>> => rvResult = "warn"
        /\ rvList # <<>> =>
              /\ \E i \in 1..Len(rvList) : rvList[i].action = rvResult
              /\ \A i \in 1..Len(rvList) :
                    SeverityRank(rvList[i].action) <= SeverityRank(rvResult)

\* the maximum is neither the first nor the last element
C1_Witness ==
    /\ rvResult = "shutdown"
    /\ Len(rvList) >= 3
    /\ rvList[1].action = "block"
    /\ rvList[Len(rvList)].action = "warn"

(* C2: a disabled rule contributes no violation, and enabling one more    *)
(* rule only adds violations: everything reported with the rule set R is  *)
(* still reported with R plus the newly enabled rule.                     *)
C2_DisabledSkippedAndMonotone ==
    scanDone =>
        /\ \A i \in 1..Len(violations) :
              \E k \in 1..Len(rules) :
                  rules[k].enabled /\ rules[k].id = violations[i].ruleId
        /\ \A k \in 1..Len(rules) :
              ~rules[k].enabled =>
                  IncludedIn(violations, scanContent(content, enableRule(rules, k)))

\* a scan that reported something, with a disabled rule that would add more
C2_Witness ==
    /\ scanDone
    /\ violations # <<>>
    /\ \E k \in 1..Len(rules) :
          /\ ~rules[k].enabled
          /\ Len(scanContent(content, enableRule(rules, k))) > Len(violations)

(* C3 as stated: the preview of a raw match longer than the masking       *)
(* threshold never equals the raw match.                                  *)
C3_PreviewNeverRaw ==
    \A i \in 1..Len(violations) :
        Len(rawOf(violations[i])) > 6 =>
            violations[i].matchPreview # rawOf(violations[i])

(* C3 amended: the preview of a raw match longer than the masking         *)
(* threshold keeps only the first 2 and last 2 characters of the raw      *)
(* match, every character in between is the mask character, and it        *)
(* differs from the raw match unless the interior of the raw match was    *)
(* made of mask characters already.                                       *)
C3_PreviewMasksInterior ==
    \A i \in 1..Len(violations) :
        LET raw == rawOf(violations[i])
            preview == violations[i].matchPreview
            n == Len(raw)
        IN  n > 6 =>
              /\ \A j \in 3..(n - 2) : preview[j] = "*"
              /\ SubSeq(preview, 1, 2) = SubSeq(raw, 1, 2)
              /\ SubSeq(preview, n - 1, n) = SubSeq(raw, n - 1, n)
              /\ (\E j \in 3..(n - 2) : raw[j] # "*") => preview # raw

\* a long match was reported and its preview hides part of it
C3_Witness ==
    \E i \in 1..Len(violations) :
        /\ Len(rawOf(violations[i])) > 6
        /\ violations[i].matchPreview # rawOf(violations[i])
        /\ violations[i].ruleId = "content-custom"

(* C10: a credit-card violation has 13 to 19 digits and a Luhn digit sum  *)
(* that is a multiple of 10; a phone violation has at least 7 digits.     *)
C10_PiiPostFilters ==
    \A i \in 1..Len(violations) :
        LET ds == digitsOf(rawOf(violations[i]))
        IN  /\ violations[i].ruleId = "pii-credit-card" =>
                  Len(ds) >= 13 /\ Len(ds) <= 19 /\ LuhnSum(ds, 1) % 10 = 0
            /\ violations[i].ruleId = "pii-phone" => Len(ds) >= 7

\* a card number was reported while another candidate was discarded
C10_Witness ==
    /\ ruleIdx > 1
    /\ \E i \in 1..Len(violations) : violations[i].ruleId = "pii-credit-card"
    /\ Len(execAll(CreditCardPattern, content, 0))
          > Cardinality({i \in 1..Len(violations) :
                            violations[i].ruleId = "pii-credit-card"})

----------------------------------------------------------------------------
(* Properties of the integrity subsystem and of the skill scan *)

\* p is root or lies below it
insideTree(p, root) == Len(p) >= Len(root) /\ SubSeq(p, 1, Len(root)) = root

ownKeys(obj) == {obj[i].path : i \in 1..Len(obj)}

(* C5: no key of a snapshot (or of a stored baseline) and no file the     *)
(* skill scan hands to the detection engine refers to content outside     *)
(* the scanned root, whatever links the tree holds.                       *)
C5_NoEscapeThroughLinks ==
    /\ opResult.op \in {"snapshot", "hash"} =>
          \A e \in SeqRange(opResult.files) :
              /\ Head(e.path) # ".."
              /\ insideTree(realpath(fs, Root \o e.path), Root)
              /\ e.hash # sha256(SecretContent)
    /\ baseline.version = 1 =>
          \A e \in SeqRange(baseline.files) : e.hash # sha256(SecretContent)
    /\ opResult.op = "scan" =>
          \A f \in SeqRange(opResult.files) :
              /\ insideTree(realpath(fs, f.path), opResult.root)
              /\ f.content # SecretContent

\* a snapshot was taken of a tree in which a chain of links leaves the root
C5_Witness ==
    /\ opResult.op = "snapshot"
    /\ opResult.files # <<>>
    /\ \E p \in LinkSlots :
          /\ fs[p].kind = "link"
          /\ fs[p].target \in LinkSlots
          /\ realpath(fs, p) \in {OutsideFile, OutsideDir}

(* C7: detectDrift right after writeBaseline, the tree unchanged, reports *)
(* baselinePresent and no added, removed or modified path.                *)
C7_NoDriftAfterBaseline ==
    (opResult.op = "drift" /\ baseline.version = 1 /\ ~dirty) =>
        /\ opResult.baselinePresent
        /\ opResult.added = <<>>
        /\ opResult.removed = <<>>
        /\ opResult.modified = <<>>

\* the baseline covers a changed tree with a followed link and a file
\* named like an inherited property
C7_Witness ==
    /\ opResult.op = "drift"
    /\ baseline.version = 1
    /\ ~dirty
    /\ changes >= 2
    /\ <<"constructor">> \in ownKeys(baseline.files)
    /\ \E p \in LinkSlots : <<p[2], p[3]>> \in ownKeys(baseline.files)

(* C8: with a baseline present, added is exactly the current paths absent *)
(* from the baseline, removed the baseline paths absent from the current  *)
(* snapshot, modified the common paths with differing hash; each list is  *)
(* sorted and the three are pairwise disjoint.                            *)
C8_DriftIsExactDifference ==
    (opResult.op = "drift" /\ opResult.baselinePresent) =>
        LET current == snapshotDirectoryHashes(fs, Root, "asc")
            cur == ownKeys(current)
            base == ownKeys(baseline.files)
            hashIn(obj, k) == (CHOOSE e \in SeqRange(obj) : e.path = k).hash
        IN  /\ opResult.added = setToSeq(cur \ base)
            /\ opResult.removed = setToSeq(base \ cur)
            /\ opResult.modified =
                  setToSeq({k \in cur \cap base :
                              hashIn(current, k) # hashIn(baseline.files, k)})
            /\ SeqRange(opResult.added) \cap SeqRange(opResult.removed) = {}
            /\ SeqRange(opResult.added) \cap SeqRange(opResult.modified) = {}
            /\ SeqRange(opResult.removed) \cap SeqRange(opResult.modified) = {}

----------------------------------------------------------------------------
(* Properties of applyRedactions and of the quarantine *)

(* C4: applyRedactions writes to a file only after it copied that file to *)
(* its backup, and for every result with success = true the backup path   *)
(* is a file in the same directory that holds the text the session file   *)
(* had before the redaction.                                              *)
C4_BackupBeforeWrite ==
    /\ \A j \in 1..Len(rdIo) :
          rdIo[j].op = "write" =>
             \E i \in 1..(j - 1) :
                rdIo[i] = [op |-> "copy", file |-> rdIo[j].file]
    /\ \A k \in 1..Len(rdResults) :
          rdResults[k].success =>
             /\ rdResults[k].backupPath.dir = rdResults[k].file.dir
             /\ rdResults[k].backupPath \notin SessionFiles
             /\ sfs[rdResults[k].backupPath] # Absent
             /\ sfs[rdResults[k].backupPath] = rdBefore[rdResults[k].file]

\* a call that failed on one file and redacted a message of the other,
\* whose backup differs from the rewritten file
C4_Witness ==
    /\ rdPc = "returned"
    /\ Len(rdResults) = 2
    /\ \E k \in 1..2 : ~rdResults[k].success
    /\ \E k \in 1..2 :
          /\ rdResults[k].success
          /\ rdResults[k].messagesRedacted > 0
          /\ sfs[rdResults[k].backupPath] # sfs[rdResults[k].file]

(* C6: when restore returns the record of a quarantined item as restored, *)
(* the original path holds the tree the item had when it was quarantined  *)
(* and nothing is left at the record's quarantine path.                   *)
C6_QuarantineRestoreRoundTrip ==
    (qRet.op = "restore" /\ qRet.outcome = "restored") =>
        /\ qTaken[qRet.record.id[2]] # Vacant
        /\ qfs[qRet.record.originalPath] = qTaken[qRet.record.id[2]]
        /\ qfs[qRet.record.quarantinedPath] = Vacant
        /\ qRet.record.restoredAt # NotRestored

\* a restore by record id of the second quarantine of a skill that held a
\* tree, while the first quarantine of that skill is still active
C6_Witness ==
    /\ qRet.op = "restore"
    /\ qRet.outcome = "restored"
    /\ qRet.record.id = Uuids[2]
    /\ qfs[qRet.record.originalPath] = "tree2"
    /\ Len(ledger.records) = 2
    /\ ledger.records[1].restoredAt = NotRestored
    /\ ledger.records[1].skillName = qRet.record.skillName

(* C11: applyRedactions reports exactly one result per file it has to     *)
(* redact, in the order of the files; a file whose copy, read, parse or   *)
(* write throws gets {success: false, error} and the files after it are   *)
(* still processed and reported.                                          *)
RECURSIVE firstAppearances(_, _)
firstAppearances(files, seen) ==
    IF files = <<>> THEN <<>>
    ELSE IF Head(files) \in seen THEN firstAppearances(Tail(files), seen)
         ELSE <<Head(files)>>
                 \o firstAppearances(Tail(files), seen \cup {Head(files)})

filesToRedact(decisions) ==
    LET chosen == SelectSeq(decisions, LAMBDA d : d.action = "redact")
    IN  firstAppearances([i \in 1..Len(chosen) |-> chosen[i].violation.sessionFile],
                         {})

filesOf(items) == [i \in 1..Len(items) |-> items[i].file]

C11_OneResultPerFile ==
    rdPc # "idle" =>
        /\ filesOf(rdResults) \o filesOf(rdPending) = filesToRedact(rdDecisions)
        /\ (rdPc = "returned" => rdPending = <<>>)
        /\ \A k \in 1..Len(rdResults) :
              IF rdResults[k].success
              THEN rdResults[k].error = "undefined"
              ELSE /\ rdResults[k].error = "message"
                   /\ rdResults[k].backupPath = NoPath
                   /\ rdResults[k].messagesRedacted = 0

\* a call on two files that failed on the first and succeeded on the second
C11_Witness ==
    /\ rdPc = "returned"
    /\ Len(rdResults) = 2
    /\ ~rdResults[1].success
    /\ rdResults[2].success
    /\ rdResults[1].file # rdResults[2].file

(* C12: a step of the quarantine never removes or reorders a ledger       *)
(* record and changes a record only by setting the restoredAt of an       *)
(* active record, which only a restore that returns it does; and          *)
(* listQuarantineRecords() returns exactly the records without            *)
(* restoredAt, listQuarantineRecords(true) every record.                  *)
recordKept(old, new) ==
    \/ new = old
    \/ /\ old.restoredAt = NotRestored
       /\ new.restoredAt # NotRestored
       /\ new = [old EXCEPT !.restoredAt = new.restoredAt]
       /\ qRet'.op = "restore" /\ qRet'.outcome = "restored"
       /\ qRet'.record = new

ledgerStep ==
    /\ Len(ledger'.records) >= Len(ledger.records)
    /\ \A i \in 1..Len(ledger.records) :
          recordKept(ledger.records[i], ledger'.records[i])
    /\ Cardinality({i \in 1..Len(ledger.records) :
                       ledger'.records[i] # ledger.records[i]}) <= 1
    /\ \A i \in (Len(ledger.records) + 1)..Len(ledger'.records) :
          ledger'.records[i].restoredAt = NotRestored

listedRight ==
    qRet.op = "list" =>
        /\ Len(qRet.records) =
              Cardinality({i \in 1..Len(ledger.records) :
                  qRet.includeRestored
                      \/ ledger.records[i].restoredAt = NotRestored})
        /\ \A i \in 1..Len(ledger.records) :
              (qRet.includeRestored \/ ledger.records[i].restoredAt = NotRestored)
                  <=> \E k \in 1..Len(qRet.records) :
                         qRet.records[k] = ledger.records[i]

C12_LedgerLifecycle == [][ledgerStep]_vars /\ []listedRight

\* both lists were taken of a ledger that holds a restored and an active
\* record: the list of the active records is shorter
C12_Witness ==
    /\ qRet.op = "list"
    /\ ~qRet.includeRestored
    /\ Len(qRet.records) = 1
    /\ Len(ledger.records) = 2
    /\ ledger.records[1].restoredAt # NotRestored

(* C13: whatever step a save has reached, and also after its process    *)
(* stopped, every final path holds no file or the complete text of a      *)
(* structure, and the path being saved holds the text it held when the    *)
(* save began or the complete text of the structure being saved.          *)
C13_SaveIsCrashAtomic ==
    /\ \A path \in PersistedPaths :
          pfs[path] \in {NoFile} \cup {stringify(d) : d \in Structures}
    /\ saver.pc # "idle" =>
          pfs[saver.path] \in {savePrev, stringify(saver.data)}

\* a save of a second structure stopped after a part of the text was
\* written: the final path still holds the first structure
C13_Witness ==
    /\ saver.pc = "stopped"
    /\ pfs[tempOf(saver.path)] = <<"{", saver.data>>
    /\ pfs[saver.path] \in {stringify(d) : d \in Structures \ {saver.data}}

----------------------------------------------------------------------------
(* C14 *)

\* the gate of install-safe as the README words it: --enable was given and
\* both external scans were available and clean
enableGate ==
    /\ options.enable
    /\ preScan.available /\ preScan.clean
    /\ postScan.available /\ postScan.clean

\* C14: a run of install-safe calls enable and clears the disabled marker
\* only when --enable was given and the pre-install and post-install scans
\* were both available and clean; a run that ends otherwise leaves the
\* installed skill marked disabled and enable uncalled; and the entry the
\* run appended to the approval ledger has approved equal to that gate.
enablesOnlyThroughGate ==
    (enableCalled' /\ ~enableCalled) \/ (marker' = "cleared" /\ marker # "cleared")
        => enableGate /\ enableCalled' /\ marker' = "cleared"

gateSettled ==
    /\ enableCalled => enableGate
    /\ isPc = "done" =>
           /\ enableCalled <=> enableGate
           /\ marker = (IF enableGate THEN "cleared" ELSE "present")
           /\ approvals[Len(approvals)].approved = enableGate
    /\ isPc \in {"postScan", "record", "gate"} =>
           marker = "present" /\ ~enableCalled
    /\ isPc = "threw" => ~enableCalled

----------------------------------------------------------------------------
(* C15 *)

phasesRun == {ran[k] : k \in 1..Len(ran)}

onlyFlag(flag) ==
    /\ ~catchOptions.uninstall
    /\ catchOptions.scanOnly = (flag = "scanOnly")
    /\ catchOptions.guardOnly = (flag = "guardOnly")
    /\ catchOptions.auditOnly = (flag = "auditOnly")

\* C15: a finished run of catch with --scan-only has run the forensic scan
\* and neither the audit nor the guard install; with --guard-only it has
\* installed the guard and run neither the audit nor the forensic scan;
\* with --audit-only it has run the audit and neither the forensic scan nor
\* the guard install.
C15_PhaseFlags ==
    catchPc = "returned" =>
        /\ onlyFlag("scanOnly") =>
               /\ "forensicScan" \in phasesRun
               /\ phasesRun \cap {"runAudit", "installGuard"} = {}
        /\ onlyFlag("guardOnly") =>
               /\ "installGuard" \in phasesRun
               /\ phasesRun \cap {"runAudit", "forensicScan"} = {}
        /\ onlyFlag("auditOnly") =>
               /\ "runAudit" \in phasesRun
               /\ phasesRun \cap {"forensicScan", "installGuard"} = {}

----------------------------------------------------------------------------
(* C16 *)

\* C16: the response to a POST whose body is longer than 1 MB has status 413
\* and error "Body too large" and the rule configuration is what it was
\* before the request; the response to a valid body within the limit has
\* status 200.
C16_OversizedBodyIs413 ==
    dPc = "responded" =>
        /\ payload.length > MAX_BODY_SIZE =>
               /\ res.status = 413
               /\ res.error = "Body too large"
               /\ ruleConfig = configBefore
        /\ payload.length <= MAX_BODY_SIZE /\ payload.kind = "update" =>
               res.status = 200

----------------------------------------------------------------------------
(* C17 *)

\* C17: every iteration of a keyword loop or of a pattern loop of the
\* scanner moves the search position past the match it reports, and so
\* every loop comes to an end, whatever the text and whatever the keyword
\* or pattern, an empty keyword and a pattern that matches the empty string
\* included.
loopAdvances == lpPushed' # lpPushed => lpPos' > lpPos

C17_LoopsTerminate == [][loopAdvances]_vars /\ <>(lpPc = "returned")

----------------------------------------------------------------------------
(* C18 *)

nonBlank(text) == SelectSeq(text, LAMBDA l : l.kind # "blank")

\* the output line carries what the input line carried: a line that does
\* not parse is the same text, a line that parses is the same JSON value
sameData(inLine, outLine) ==
    IF inLine.kind = "malformed" THEN outLine = inLine
    ELSE outLine.kind = inLine.kind /\ outLine.value = inLine.value

\* C18: parsing a log file and serializing the entries again, with nothing
\* redacted, gives a text whose non-blank lines are the non-blank lines of
\* the input in the same order, a line that does not parse verbatim and a
\* line that parses as the same JSON value, an object with the key "__raw"
\* included.
C18_RoundTripKeepsData ==
    rtPc # "idle" =>
        /\ rtPc = "returned"
        /\ Len(nonBlank(rtOutput)) = Len(nonBlank(rtInput))
        /\ \A i \in 1..Len(nonBlank(rtInput)) :
               sameData(nonBlank(rtInput)[i], nonBlank(rtOutput)[i])

----------------------------------------------------------------------------
(* C19 *)

\* the records of the ledger that were active and matched the identifier
\* by id or by skill name when the restore was called
activeMatches(identifier) ==
    { j \in 1..Len(ledger.records) :
        /\ ledger.records[j].restoredAt = NotRestored
        /\ \/ ledger.records[j].id = identifier
           \/ <<ledger.records[j].skillName>> = identifier }

\* a step in which restore returned a record
restoreReturns ==
    /\ ledger' # ledger
    /\ qRet'.op = "restore"
    /\ qRet'.outcome = "restored"

\* what the step did to the record at index i and to nothing else
restoresOnly(i) ==
    /\ qRet'.record = ledger'.records[i]
    /\ ledger' = [ledger EXCEPT !.records[i].restoredAt = qRet'.record.restoredAt]
    /\ qRet'.record.restoredAt # NotRestored
    /\ qfs'[ledger.records[i].originalPath] = qfs[ledger.records[i].quarantinedPath]
    /\ qfs'[ledger.records[i].quarantinedPath] = Vacant

restoresMostRecent ==
    restoreReturns =>
        \E i \in activeMatches(qRet'.identifier) :
            /\ \A j \in activeMatches(qRet'.identifier) :
                  ledger.records[j].timestamp <= ledger.records[i].timestamp
            /\ restoresOnly(i)

restoresOldest ==
    restoreReturns =>
        \E i \in activeMatches(qRet'.identifier) :
            /\ \A j \in activeMatches(qRet'.identifier) :
                  ledger.records[i].timestamp <= ledger.records[j].timestamp
            /\ restoresOnly(i)

\* C19 as stated: restore(identifier) takes, of the active records that
\* match the identifier by id or by skill name, the most recent one, moves
\* its item back to the original path and sets restoredAt on that record
\* only.
C19_RestoreSelectsMostRecent == [][restoresMostRecent]_vars

\* C19: restore(identifier) takes, of the active records that match the
\* identifier by id or by skill name, the one quarantined first, moves its
\* item back to the original path and sets restoredAt on that record only.
C19_RestoreSelectsOldest == [][restoresOldest]_vars

\* a skill was quarantined twice and then restored by name: the record of
\* the first quarantine is restored, the record of the second still active
C19_Witness ==
    /\ qRet.op = "restore"
    /\ qRet.outcome = "restored"
    /\ qRet.identifier = <<"skill-a">>
    /\ Len(ledger.records) >= 2
    /\ ledger.records[1].skillName = "skill-a"
    /\ ledger.records[2].skillName = "skill-a"
    /\ ledger.records[1] = qRet.record
    /\ ledger.records[2].restoredAt = NotRestored

----------------------------------------------------------------------------
(* C20 *)

inLedger(record) ==
    \E k \in 1..Len(raceLedger.records) : raceLedger.records[k] = record

moved(record) ==
    /\ raceFs[record.originalPath] = Vacant
    /\ raceFs[record.quarantinedPath] # Vacant

bothReturned == \A c \in Calls : procs[c].pc = "returned"

\* C20: a call of quarantine that returns has moved its item; when both
\* calls have returned the ledger holds the record of at least one of
\* them, and it is the file the last writer made of what it had loaded;
\* when the calls did not overlap the ledger holds both records.  (That
\* overlapping calls can both return and leave one record is the witness.)
C20_LastWriteWins ==
    /\ \A c \in Calls : procs[c].pc = "returned" => moved(procs[c].record)
    /\ bothReturned =>
           /\ \E c \in Calls :
                  raceLedger = push(procs[c].db, procs[c].record)
           /\ ~overlapped =>
                  /\ \A c \in Calls : inLedger(procs[c].record)
                  /\ Len(raceLedger.records) = 2

\* the two calls overlapped, both moved their item and both returned, and
\* the ledger holds one record
C20_Witness ==
    /\ overlapped
    /\ bothReturned
    /\ \A c \in Calls : moved(procs[c].record)
    /\ procs[1].record # procs[2].record
    /\ Len(raceLedger.records) = 1


----------------------------------------------------------------------------
(* C21: a snapshot of a tree returns, link cycles included, and lists     *)
(* each directory (by real path) at most once: the listing names no file  *)
(* twice, names the files of a listed directory only, and the snapshot    *)
(* has one key for each listed file.                                      *)
parentOf(p) == SubSeq(p, 1, Len(p) - 1)
\* a link of the tree that leads to a directory above itself
linkCycle(fsys) ==
    \E p \in LinkSlots :
        /\ fsys[p].kind = "link"
        /\ statNode(fsys, p).kind = "dir"
        /\ withinRoot(p, realpath(fsys, p))
\* a directory of the tree that a link under the root leads to as well
linkedAgain(fsys) ==
    \E p \in LinkSlots :
        /\ fsys[p].kind = "link"
        /\ statNode(fsys, p).kind = "dir"
        /\ withinRoot(realpath(fsys, p), Root)
        /\ readdir(fsys, realpath(fsys, p), "asc") # <<>>
C21_EachDirectoryListedOnce ==
    opResult.op = "snapshot" =>
        \A ord \in Orders :
            LET r == listFilesRecursive(fs, Root, Root, {}, ord)
            IN  /\ \A f \in SeqRange(r.files) : Occurrences(f, r.files) = 1
                /\ \A f \in SeqRange(r.files) : parentOf(f) \in r.seen
                /\ \A d \in r.seen :
                      Cardinality({i \in 1..Len(r.files) : parentOf(r.files[i]) = d})
                          <= Len(readdir(fs, d, ord))
                /\ Len(opResult.files) = Len(r.files)
C21_Witness ==
    /\ opResult.op = "snapshot"
    /\ linkCycle(fs)
    /\ linkedAgain(fs)
    /\ Len(opResult.files) >= 2


----------------------------------------------------------------------------
(* C22: the masking of the detection previews and the masking of the      *)
(* rewritten log text give the same output for every raw match.           *)
C22_OneMaskingThreshold ==
    maskPc = "masked" => maskPreview = maskRewritten


----------------------------------------------------------------------------
(* C23: when an entry with a block list is redacted, every block other    *)
(* than the first text block is unchanged and the new text of the first   *)
(* text block is the redaction of its own previous text only.             *)
C23_FirstTextBlockOnly ==
    blkPc = "done" /\ blkCount = 1 =>
        LET i == findTextBlock(blkBefore)
        IN  /\ \A j \in 1..Len(blkBefore) : j # i => blkContent[j] = blkBefore[j]
            /\ i # 0 =>
                  /\ blkContent[i].type = blkBefore[i].type
                  /\ blkContent[i].text =
                        redactContent(IF blkBefore[i].text = Undefined THEN <<>>
                                      ELSE blkBefore[i].text, blkRule)


----------------------------------------------------------------------------
(* C24: the stored baseline changes only in a step of                     *)
(* writeExtensionsBaseline, and then to exactly the snapshot of the tree  *)
(* (no path of the previous baseline survives unless the snapshot has     *)
(* it); a step of detectExtensionsIntegrityDrift changes neither the      *)
(* stored baseline nor the tree.                                          *)
baselineReplaced ==
    baseline' # baseline =>
        /\ opResult'.op = "baseline"
        /\ fs' = fs
        /\ \E ord \in Orders :
              baseline' = [version |-> 1, rootDir |-> Root,
                           files |-> snapshotDirectoryHashes(fs, Root, ord)]
baselineWritten ==
    opResult'.op = "baseline" =>
        \A i \in 1..Len(baseline'.files) :
            \E ord \in Orders :
                hasOwn(snapshotDirectoryHashes(fs, Root, ord),
                       baseline'.files[i].path)
driftReadsOnly ==
    opResult'.op = "drift" => baseline' = baseline /\ fs' = fs
C24_BaselineReplacedWholesale ==
    [][baselineReplaced /\ baselineWritten /\ driftReadsOnly]_vars
\* a baseline written after a file of the tree went away
C24_Witness ==
    /\ opResult.op = "baseline"
    /\ baseline.version = 1
    /\ changes > 0
    /\ ~hasOwn(baseline.files, <<"a", "f">>)
    /\ hasOwn(baseline.files, <<"b", "g">>)


----------------------------------------------------------------------------
(* C25: a session file is backed up or rewritten only after the user      *)
(* accepted the review, finished it without quit and answered yes to the  *)
(* final question; after a quit no file is touched whatever was decided   *)
(* before; after "redact all" or "skip all" every later violation gets    *)
(* that decision and is not prompted for.                                 *)
placeOf(v) == CHOOSE k \in 1..Len(irViolations) : reviewOrder(irViolations)[k] = v
touchedOnlyOnYes ==
    irTouched # {} =>
        /\ irAnswers = [review |-> "yes", proceed |-> "yes"]
        /\ ~quitChosen(irDecisions)
        /\ irNext > Len(irViolations)
        /\ irTouched = redactedFiles(irViolations, irDecisions)
quitDiscards ==
    quitChosen(irDecisions) => irTouched = {} /\ irAnswers.proceed = "none"
bulkAppliesUnprompted ==
    irBulk.action # "none" =>
        \A v \in 1..Len(irViolations) :
            /\ placeOf(v) > irBulk.at /\ placeOf(v) < irNext =>
                  irDecisions[v] = irBulk.action /\ v \notin irPrompted
            /\ irPc \in {"reviewed", "returned"} => irDecisions[v] # "none"
C25_RedactionNeedsConsent ==
    touchedOnlyOnYes /\ quitDiscards /\ bulkAppliesUnprompted
\* a review with a redact decision, a bulk choice and a yes at the end
C25_Witness ==
    /\ irPc = "returned"
    /\ irTouched # {}
    /\ irBulk.action = "redact" /\ irBulk.at < Len(irViolations)
    /\ \E v \in 1..Len(irViolations) : irDecisions[v] = "skip"


----------------------------------------------------------------------------
(* C26: at most one scan runs at a time; a request that arrives during a  *)
(* scan is answered 409 and starts no scan; scanInProgress is true        *)
(* exactly while a scan runs, so it is false after every scan, failed or  *)
(* not.                                                                   *)
scansRunning == {r \in ScanRequests : scanCalls[r].pc \in {"scanning", "recording"}}
C26_OneScanAtATime ==
    /\ Cardinality(scansRunning) <= 1
    /\ scanInProgress <=> scansRunning # {}
    /\ \A r \in ScanRequests :
          /\ scanCalls[r].busy <=> scanCalls[r].status = 409
          /\ scanCalls[r].status \in {200, 500} => ~scanCalls[r].busy
    /\ scansStarted =
          Cardinality({r \in ScanRequests :
                          scanCalls[r].pc # "waiting" /\ ~scanCalls[r].busy})
\* a request refused during a scan, the scan failed, a later scan ran
C26_Witness ==
    \E a, b, c \in ScanRequests :
        /\ scanCalls[a].status = 500
        /\ scanCalls[b].status = 409
        /\ scanCalls[c].status = 200
        /\ ~scanInProgress


----------------------------------------------------------------------------
(* C27: quarantineSkill is called only with the quarantine option set     *)
(* and for a skill with a finding; "lobstercage" is neither listed nor    *)
(* quarantined; every throw is an entry of errors and the loop still      *)
(* reaches every skill; quarantinedCount is the number of findings with   *)
(* a quarantine record.                                                   *)
findingsWithRecord ==
    {i \in 1..Len(ssReport.findings) : ssReport.findings[i].quarantined # NotQuarantined}
C27_SkillScanQuarantine ==
    /\ ssCalls # {} => ssOptions.quarantine
    /\ \A s \in ssCalls :
          \E i \in 1..Len(ssReport.findings) :
              /\ ssReport.findings[i].skillName = s
              /\ ssReport.findings[i].violations # <<>>
    /\ \A i \in findingsWithRecord : ssReport.findings[i].skillName \in ssCalls
    /\ "lobstercage" \notin ssListed \cup ssCalls
    /\ Len(ssReport.errors) = ssThrown
    /\ ssReport.quarantinedCount = Cardinality(findingsWithRecord)
    /\ ssPc = "returned" =>
          /\ ssListed = {e \in ssEntries : e # "lobstercage" /\ entryKind(e) = "dir"}
          /\ ssReport.skillsScanned = Cardinality(ssListed)
\* a scan with the guard's own extension present, where one quarantine
\* threw and a later skill was quarantined
C27_Witness ==
    /\ ssPc = "returned"
    /\ "lobstercage" \in ssEntries
    /\ ssReport.quarantinedCount = 1
    /\ Len(ssReport.findings) = 2
    /\ ssReport.findings[1].quarantined = NotQuarantined
    /\ ssReport.errors # <<>>


----------------------------------------------------------------------------
(* C28: the text rewritten under a rule id is the scanned text with       *)
(* exactly the occurrences masked that detection reports under that rule: *)
(* a candidate the Luhn, digit-count or 7-digit filter rejects stays as   *)
(* it was.                                                                *)
reportedMatches(text, rule) ==
    SelectSeq(execAll(PII_PATTERNS(rule.type)[1], text, 0),
              LAMBDA m : piiKeeps(rule.type, m.text))
C28_RedactsWhatDetectionReports ==
    rwPc = "done" =>
        /\ Len(reportedMatches(rwText, rwRule)) = Len(rwFound)
        /\ rwOut = replaceMatches(rwText, reportedMatches(rwText, rwRule), 1, 0)


----------------------------------------------------------------------------
(* C29: the ledger and the filesystem agree at the start, and every       *)
(* quarantine or restore that runs to completion (it returns, or throws   *)
(* before it moved anything) keeps them in agreement: an item is present  *)
(* at the quarantinedPath of every active record, no two active records   *)
(* share a quarantinedPath, and nothing is at the quarantinedPath of a    *)
(* restored record.                                                       *)
ledgerAgrees(file, files) ==
    LET records == loadDb(file).records
        active == {i \in 1..Len(records) : records[i].restoredAt = NotRestored}
    IN  /\ \A i \in active : files[records[i].quarantinedPath] # Vacant
        /\ \A i, j \in active :
              records[i].quarantinedPath = records[j].quarantinedPath => i = j
        /\ \A i \in (1..Len(records)) \ active :
              files[records[i].quarantinedPath] = Vacant
\* the call moved an item and threw before the ledger was saved
cutShort == qRet'.outcome = "threw" /\ qfs' # qfs
completedKeepsAgreement ==
    ledgerAgrees(ledger, qfs) /\ ~cutShort => ledgerAgrees(ledger', qfs')
C29_LedgerAgreesWithFiles ==
    /\ ledgerAgrees(ledger, qfs)
    /\ [][completedKeepsAgreement]_vars
\* a skill quarantined, restored and quarantined again, every call complete
C29_Witness ==
    /\ Len(ledger.records) = 3
    /\ ledger.records[1].restoredAt # NotRestored
    /\ ledger.records[2].restoredAt = NotRestored
    /\ ledger.records[2].skillName = ledger.records[1].skillName
    /\ ledger.records[3].restoredAt = NotRestored
    /\ ledgerAgrees(ledger, qfs)
    /\ \A p \in DOMAIN qfs :
          p[1] = "quarantine" /\ qfs[p] # Vacant =>
              \E i \in 1..3 : ledger.records[i].quarantinedPath = p


----------------------------------------------------------------------------
(* C30: when the process has stopped between two steps of a quarantine    *)
(* or a restore, an item sits in the quarantine directory if and only if  *)
(* an active record of the ledger points to it.                           *)
activePaths(file) ==
    {r.quarantinedPath : r \in {q \in SeqRange(loadDb(file).records) :
                                   q.restoredAt = NotRestored}}
quarantinedItems(files) ==
    {p \in DOMAIN files : p[1] = "quarantine" /\ files[p] # Vacant}
C30_StopKeepsAgreement ==
    stCall.pc = "stopped" => quarantinedItems(stFs) = activePaths(stLedger)

====
